---------------------------- MODULE Spec2Model ----------------------------
(***************************************************************************)
(* A model of assets/agent-hooks/claude-code/langfuse-hook.py: the         *)
(* transcript parser (parse_transcript), the activity classifier           *)
(* (classify_activity), the background-task helpers and the trace          *)
(* assembler (send_to_langfuse).                                           *)
(*                                                                         *)
(* Encoding of Python values:                                              *)
(*   - a dict is a function from its keys to values, read with Get as    *)
(*     dict.get reads it; None / JSON null in a scalar field is the string *)
(*     Null;                                                               *)
(*   - a timestamp string is one of the strings of IsoTable (parsable),    *)
(*     BadTs (a string datetime.fromisoformat rejects) or Null;            *)
(*   - a datetime is a positive integer, a missing datetime is NoTime;     *)
(*   - a shell command is the JSON string of the sequence of its           *)
(*     whitespace-separated, case-folded words; a tool output text is a    *)
(*     sequence of words too.                                              *)
(***************************************************************************)
EXTENDS Integers, Sequences, FiniteSets, TLC

-----------------------------------------------------------------------------
(* Bounds of the model.                                                    *)

\* number of physical lines read from the transcript file
MaxLines == 4
\* number of turns handed to the assembler
MaxTurns == 3

-----------------------------------------------------------------------------
(* Python values.                                                          *)

Null == "null"

\* the datetime parse_iso_timestamp returns for a string it cannot use
NoTime == 0

\* ISO strings and the instant each denotes (position in the table)
IsoTable == <<"T1", "T2", "T3">>

BadTs == "not-a-timestamp"

\* Python truthiness of an optional string
Truthy(s) == s # Null /\ s # ""

\* x or y on optional strings
OrElse(x, y) == IF Truthy(x) THEN x ELSE y

\* "\n".join(parts) for a sequence of strings
RECURSIVE JoinLines(_)
JoinLines(parts) ==
  IF Len(parts) = 0 THEN ""
  ELSE IF Len(parts) = 1 THEN parts[1]
  ELSE parts[1] \o "\n" \o JoinLines(Tail(parts))

\* "\n".join(text_parts) if text_parts else None
JoinOrNone(parts) == IF Len(parts) = 0 THEN Null ELSE JoinLines(parts)

-----------------------------------------------------------------------------
(* JSON values.  A JSON object is a function from its keys to values, read *)
(* with Get as dict.get reads it.  A JSON string that the code tests with  *)
(* isinstance is [str |-> s], a list is [list |-> seq], null is JNull.     *)
(* Scalar fields the code only copies or tests for truth (type, timestamp, *)
(* cwd, model, ids) are plain strings, with Null for null or absent.       *)

EmptyDict == [k \in {} |-> Null]

Get(d, k, default) == IF k \in DOMAIN d THEN d[k] ELSE default

JStr(s) == [str |-> s]

JList(seq) == [list |-> seq]

JNull == [null |-> TRUE]

IsStr(v) == "str" \in DOMAIN v

IsList(v) == "list" \in DOMAIN v

IsDict(v) == DOMAIN v \cap {"str", "list", "null"} = {}

\* Python truthiness of a JSON value
TruthyJson(v) ==
  IF "null" \in DOMAIN v THEN FALSE
  ELSE IF IsStr(v) THEN Len(v.str) > 0
  ELSE IF IsList(v) THEN Len(v.list) > 0
  ELSE DOMAIN v # {}

-----------------------------------------------------------------------------
(* classify_activity                                                       *)

ActivityKinds ==
  {"CODE", "BUILD", "TEST", "GIT", "EXPLORE", "RESEARCH", "SETUP", "PLAN",
   "COMMUNICATE", "OTHER"}

\* re.search of a pattern  \bA\s+B : a word of A directly followed by a word of B
Has2(cmd, A, B) == \E i \in 1 .. (Len(cmd) - 1) : cmd[i] \in A /\ cmd[i + 1] \in B

\* a pattern  \bA\s+B\s+C
Has3(cmd, A, B, C) ==
  \E i \in 1 .. (Len(cmd) - 2) : cmd[i] \in A /\ cmd[i + 1] \in B /\ cmd[i + 2] \in C

\* a pattern  \bA\b  or  \bA(\s|$)
Has1(cmd, A) == \E i \in 1 .. Len(cmd) : cmd[i] \in A

\* a pattern  \bA\s : a word of A followed by white space, that is by another word
HasFollowed(cmd, A) == \E i \in 1 .. (Len(cmd) - 1) : cmd[i] \in A

\* a pattern  ^\s*A\s
StartsFollowed(cmd, A) == Len(cmd) >= 2 /\ cmd[1] \in A

\* a pattern  &&\s*A\s
AfterAndFollowed(cmd, A) ==
  \E i \in 1 .. (Len(cmd) - 2) : cmd[i] = "&&" /\ cmd[i + 1] \in A

PackageManagers == {"pnpm", "npm", "yarn", "bun"}

\* words that start with "--"
FlagWords == {"--watch", "--coverage", "--ci"}

git_patterns(cmd) ==
  \/ Has2(cmd, {"git"},
          {"status", "diff", "log", "show", "branch", "checkout", "merge",
           "rebase", "pull", "fetch", "clone", "add", "commit", "push",
           "stash", "reset", "cherry-pick"})
  \/ HasFollowed(cmd, {"gh"})

test_patterns(cmd) ==
  \/ Has2(cmd, {"cargo"}, {"nextest"})
  \/ Has1(cmd, {"cargo-nextest"})
  \/ Has2(cmd, {"nextest"}, {"run", "list"})
  \/ Has2(cmd, {"cargo"}, {"test"})
  \/ Has2(cmd, PackageManagers, {"test"})
  \/ Has3(cmd, PackageManagers, {"run"}, {"test"})
  \/ Has3(cmd, PackageManagers, {"exec"}, {"jest", "vitest", "mocha"})
  \/ Has2(cmd, {"npx"}, {"jest", "vitest", "mocha", "ava", "playwright"})
  \/ StartsFollowed(cmd, {"jest"})
  \/ AfterAndFollowed(cmd, {"jest"})
  \/ Has2(cmd, {"jest"}, FlagWords)
  \/ Has1(cmd, {"vitest"})
  \/ HasFollowed(cmd, {"mocha"})
  \/ HasFollowed(cmd, {"ava"})
  \/ Has2(cmd, {"playwright"}, {"test"})
  \/ Has2(cmd, {"cypress"}, {"run", "open"})
  \/ Has1(cmd, {"pytest"})
  \/ Has3(cmd, {"python"}, {"-m"}, {"pytest", "unittest"})
  \/ Has2(cmd, {"uvx"}, {"pytest"})
  \/ Has2(cmd, {"go"}, {"test"})

build_patterns(cmd) ==
  \/ Has2(cmd, {"cargo"}, {"build", "check", "clippy", "fmt", "bench", "doc"})
  \/ Has1(cmd, {"rustfmt"})
  \/ Has2(cmd, PackageManagers,
          {"build", "check", "lint", "typecheck", "format", "prettier", "eslint"})
  \/ Has3(cmd, PackageManagers, {"run"},
          {"build", "check", "lint", "typecheck", "format", "prettier", "eslint"})
  \/ Has2(cmd, PackageManagers, {"build", "check", "lint"})
  \/ Has2(cmd, {"npx"}, {"tsc", "eslint", "prettier", "biome"})
  \/ Has1(cmd, {"tsc"})
  \/ HasFollowed(cmd, {"eslint"})
  \/ HasFollowed(cmd, {"prettier"})
  \/ Has2(cmd, {"biome"}, {"check", "lint", "format"})
  \/ Has3(cmd, {"python"}, {"-m"}, {"mypy", "ruff", "black", "flake8", "isort"})
  \/ HasFollowed(cmd, {"mypy"})
  \/ Has2(cmd, {"ruff"}, {"check", "format"})
  \/ HasFollowed(cmd, {"black"})
  \/ HasFollowed(cmd, {"flake8"})
  \/ Has2(cmd, {"uvx"}, {"mypy", "ruff", "black", "flake8"})
  \/ HasFollowed(cmd, {"isort"})
  \/ Has2(cmd, {"go"}, {"build", "vet", "fmt", "generate"})
  \/ Has1(cmd, {"golangci-lint"})
  \/ (Len(cmd) >= 1 /\ cmd[1] = "make")
  \/ Has2(cmd, {"&&"}, {"make"})
  \/ Has2(cmd, {"make"}, {"build", "test", "check", "lint", "all", "clean"})
  \/ Has2(cmd, {"docker"}, {"build", "compose"})

setup_patterns(cmd) ==
  \/ Has2(cmd, PackageManagers, {"install", "add", "remove", "update", "upgrade", "ci"})
  \/ Has2(cmd, {"pip", "uv"}, {"install"})
  \/ HasFollowed(cmd, {"uvx"})
  \/ Has2(cmd, {"cargo"}, {"add", "remove", "update"})
  \/ Has2(cmd, {"go"}, {"get"})
  \/ Has3(cmd, {"go"}, {"mod"}, {"download", "tidy"})
  \/ Has2(cmd, {"docker"}, {"pull", "run", "start", "stop", "rm", "exec"})
  \/ StartsFollowed(cmd, {"chmod", "mkdir", "cp", "mv"})
  \/ AfterAndFollowed(cmd, {"chmod", "mkdir", "cp", "mv"})

\* what classify_activity leaves behind in place of a kind when it raises
Raises == "raises"

\* the Bash branch with the SETUP patterns tried before the TEST and BUILD ones
ClassifyBash_SetupFirst(tool_input) ==
  IF ~IsDict(tool_input)
    THEN IF TruthyJson(tool_input) THEN Raises ELSE "OTHER"
  ELSE
    LET command == Get(tool_input, "command", JStr(<<>>))
    IN IF ~IsStr(command) THEN Raises
       ELSE IF git_patterns(command.str) THEN "GIT"
       ELSE IF setup_patterns(command.str) THEN "SETUP"
       ELSE IF test_patterns(command.str) THEN "TEST"
       ELSE IF build_patterns(command.str) THEN "BUILD"
       ELSE "OTHER"

\* The Bash branch.  tool_input.get on a truthy input that is not a dict
\* raises AttributeError; re.search on a command that is not a string
\* raises TypeError.
ClassifyBash(tool_input) ==
  IF ~IsDict(tool_input)
    THEN IF TruthyJson(tool_input) THEN Raises ELSE "OTHER"
  ELSE
    LET command == Get(tool_input, "command", JStr(<<>>))
    IN IF ~IsStr(command) THEN Raises
       ELSE IF git_patterns(command.str) THEN "GIT"
       ELSE IF test_patterns(command.str) THEN "TEST"
       ELSE IF build_patterns(command.str) THEN "BUILD"
       ELSE IF setup_patterns(command.str) THEN "SETUP"
       ELSE "OTHER"

\* tool_input = tool_input or {} ; command = tool_input.get("command", "")
classify_activity(tool_name, tool_input) ==
  IF tool_name \in {"Edit", "Write", "NotebookEdit"} THEN "CODE"
  ELSE IF tool_name \in {"TodoWrite", "EnterPlanMode", "ExitPlanMode"} THEN "PLAN"
  ELSE IF tool_name \in {"AskUserQuestion"} THEN "COMMUNICATE"
  ELSE IF tool_name \in {"WebSearch", "WebFetch"} THEN "RESEARCH"
  ELSE IF tool_name \in {"Read", "Glob", "Grep", "LSP", "LS", "Task",
                         "ListMcpResourcesTool", "ReadMcpResourceTool"}
       THEN "EXPLORE"
  ELSE IF tool_name = "Bash" THEN ClassifyBash(tool_input)
  ELSE "OTHER"

-----------------------------------------------------------------------------
(* Helpers of the assembler.                                               *)

\* the words a tool output is searched for
BgMarker == "Command running in background with ID:"

\* the match of [a-zA-Z0-9]+ at the start of a word ("" when there is none)
LeadingAlnum(w) ==
  IF w \in {"bg1", "bg2"} THEN w
  ELSE IF w = "bg1." THEN "bg1"
  ELSE ""

\* the text extract_background_task_id searches: the string itself, the
\* text parts of a list joined by "\n", or the text of a text block
RECURSIVE OutputParts(_)
OutputParts(blocks) ==
  IF Len(blocks) = 0 THEN <<>>
  ELSE LET block == Head(blocks)
       IN (IF IsStr(block) THEN block.str
           ELSE IF IsDict(block) /\ Get(block, "type", Null) = "text"
             THEN Get(block, "text", <<>>)
           ELSE <<>>) \o OutputParts(Tail(blocks))

OutputText(tool_output) ==
  IF IsStr(tool_output) THEN tool_output.str
  ELSE IF IsList(tool_output) THEN OutputParts(tool_output.list)
  ELSE IF IsDict(tool_output) /\ Get(tool_output, "type", Null) = "text"
    THEN Get(tool_output, "text", <<>>)
  ELSE <<>>

\* re.search(r"Command running in background with ID:\s*([a-zA-Z0-9]+)"):
\* the leftmost marker that an id follows
extract_background_task_id(tool_output) ==
  LET text_content == OutputText(tool_output)
      hits == {k \in 1 .. (Len(text_content) - 1) :
                 /\ text_content[k] = BgMarker
                 /\ LeadingAlnum(text_content[k + 1]) # ""}
  IN IF "null" \in DOMAIN tool_output \/ hits = {} THEN Null
     ELSE LeadingAlnum(text_content[(CHOOSE k \in hits : \A h \in hits : k <= h) + 1])

\* extract_task_output_info with the block field ignored
extract_task_output_info_AlwaysBlocking(tool_name, tool_input) ==
  IF tool_name # "TaskOutput" THEN [task_id |-> Null, is_blocking |-> FALSE]
  ELSE [task_id |-> Get(tool_input, "task_id", Null), is_blocking |-> TRUE]

\* (task_id, is_blocking): block defaults to true
extract_task_output_info(tool_name, tool_input) ==
  IF tool_name # "TaskOutput" THEN [task_id |-> Null, is_blocking |-> FALSE]
  ELSE [task_id |-> Get(tool_input, "task_id", Null),
        is_blocking |-> Get(tool_input, "block", TRUE)]

\* hashlib.sha256(seed.encode()).hexdigest()[:32]: a digest, taken to be
\* injective on the seeds
generate_deterministic_id(seed) == [sha256 |-> seed]

\* the instant an ISO string of IsoTable denotes
IsoInstant(ts) == CHOOSE k \in 1 .. Len(IsoTable) : IsoTable[k] = ts

parse_iso_timestamp(ts) ==
  IF ~Truthy(ts) THEN NoTime
  ELSE IF \E k \in 1 .. Len(IsoTable) : IsoTable[k] = ts THEN IsoInstant(ts)
  ELSE NoTime

\* create_background_umbrella_span
create_background_umbrella_span(background_task_id, pending_task, completion_time, trace_id, gen_id) ==
  LET bash_tool_use_id == Get(pending_task, "bash_tool_use_id", "")
      activity_kind == Get(pending_task, "activity_kind", "OTHER")
      tool_name == Get(pending_task, "tool_name", "Bash")
      span_id == generate_deterministic_id(
                   "umbrella_" \o bash_tool_use_id \o "_" \o background_task_id)
  IN [type |-> "span-create",
      body |-> [id |-> span_id,
                trace_id |-> trace_id,
                parent_observation_id |-> gen_id,
                name |-> "BACKGROUND/" \o activity_kind \o "/" \o tool_name,
                input |-> [background_task_id |-> background_task_id],
                output |-> JNull,
                start_time |-> Get(pending_task, "start_time", NoTime),
                end_time |-> completion_time,
                metadata |-> [activity_kind |-> activity_kind,
                              background_task_id |-> background_task_id,
                              bash_tool_use_id |-> bash_tool_use_id,
                              is_background |-> TRUE]]]

-----------------------------------------------------------------------------
(* parse_transcript                                                        *)

VARIABLES
  pstatus,                \* "start", "parsing", "returned" or "raised"
  log,                    \* the lines of the file read so far, in order
  session_metadata,       \* result["session_metadata"]
  turns,                  \* result["turns"]
  tool_results,           \* result["tool_results"]
  totals,                 \* result["totals"]
  pending_user_message,
  pending_user_timestamp

parserVars ==
  <<pstatus, log, session_metadata, turns, tool_results, totals,
    pending_user_message, pending_user_timestamp>>

\* send_to_langfuse: its environment, its locals and the batch it builds
VARIABLES
  apc,                    \* where send_to_langfuse is
  sink,                   \* the ingestion sink: "ok", "no_package", "no_keys", "fails"
  uuid_salt,              \* what this run's uuid.uuid4() draws from
  now,                    \* datetime.now(timezone.utc) of this run
  first_timestamp,
  events,
  batch_calls,            \* the batches handed to langfuse.api.ingestion.batch
  prev_end_time,
  pending_background_tasks,
  i,                      \* index of the turn in hand (from 1)
  c,                      \* index of the tool call in hand (from 1)
  start_time,
  end_time,
  generation_id

asmVars ==
  <<apc, sink, uuid_salt, now, first_timestamp, events, batch_calls, prev_end_time,
    pending_background_tasks, i, c, start_time, end_time, generation_id>>

\* main: its environment and where it is
VARIABLES
  mpc,                    \* where main is
  tracing,                \* TRACE_TO_LANGFUSE is "true", whatever the case
  stdin,                  \* the hook input on standard input
  exit_status             \* <<>> until main returns, then <<its return value>>

mainVars == <<mpc, tracing, stdin, exit_status>>

\* one call of classify_activity: its arguments and what it returns
VARIABLES
  cpc,
  arg_tool_name,
  arg_tool_input,
  ret_kind

classifyVars == <<cpc, arg_tool_name, arg_tool_input, ret_kind>>

vars == <<parserVars, asmVars, mainVars, classifyVars>>

\* EmptyResult with a model name filled in before any line is read
EmptyResult_ModelPreset ==
  [session_metadata |-> [cwd |-> Null, git_branch |-> Null, model |-> "unknown"],
   turns |-> <<>>,
   tool_results |-> EmptyDict,
   totals |-> [input_tokens |-> 0,
               output_tokens |-> 0,
               cache_read_input_tokens |-> 0,
               cache_creation_input_tokens |-> 0,
               activity_counts |-> [k \in ActivityKinds |-> 0]]]

\* the dict parse_transcript builds before it opens the file
EmptyResult ==
  [session_metadata |-> [cwd |-> Null, git_branch |-> Null, model |-> Null],
   turns |-> <<>>,
   tool_results |-> EmptyDict,
   totals |-> [input_tokens |-> 0,
               output_tokens |-> 0,
               cache_read_input_tokens |-> 0,
               cache_creation_input_tokens |-> 0,
               activity_counts |-> [k \in ActivityKinds |-> 0]]]

\* a dict that keeps the first value written under a key
Put_KeepsFirst(d, k, v) ==
  [x \in DOMAIN d \cup {k} |-> IF x \in DOMAIN d THEN d[x] ELSE v]

\* d[k] = v on a dict
Put(d, k, v) == [x \in DOMAIN d \cup {k} |-> IF x = k THEN v ELSE d[x]]

\* The block loop of a user entry: text parts and tool results, in order.
RECURSIVE UserBlocks(_, _, _)
UserBlocks(blocks, text_parts, results) ==
  IF Len(blocks) = 0 THEN [text_parts |-> text_parts, tool_results |-> results]
  ELSE
    LET block == Head(blocks)
        rest == Tail(blocks)
    IN IF IsStr(block) THEN UserBlocks(rest, Append(text_parts, block.str), results)
       ELSE IF IsDict(block) THEN
         LET block_type == Get(block, "type", Null)
         IN IF block_type = "text"
              THEN UserBlocks(rest, Append(text_parts, Get(block, "text", "")), results)
            ELSE IF block_type = "tool_result" THEN
              LET tool_use_id == Get(block, "tool_use_id", Null)
              IN IF Truthy(tool_use_id)
                   THEN UserBlocks(rest, text_parts,
                                   Put(results, tool_use_id, Get(block, "content", JNull)))
                   ELSE UserBlocks(rest, text_parts, results)
            ELSE UserBlocks(rest, text_parts, results)
       ELSE UserBlocks(rest, text_parts, results)

\* One tool_use block of an assistant entry.
ToolCallOf(block) ==
  LET tool_name == Get(block, "name", "")
      tool_input == Get(block, "input", EmptyDict)
  IN [tool_name |-> tool_name,
      tool_input |-> tool_input,
      tool_use_id |-> Get(block, "id", Null),
      activity_kind |-> classify_activity(tool_name, tool_input)]

\* CountActivity with the counter of one kind never incremented
CountActivity_SkipsExplore(counts, activity_kind) ==
  [counts EXCEPT ![activity_kind] = IF activity_kind = "EXPLORE" THEN @ ELSE @ + 1]

\* result["totals"]["activity_counts"][activity_kind] += 1
CountActivity(counts, activity_kind) ==
  [counts EXCEPT ![activity_kind] = @ + 1]

\* The block loop of an assistant entry.  block.get on a block that is not
\* a dict raises AttributeError, and so may classify_activity: the loop
\* stops there, with the counts already incremented for the blocks before.
RECURSIVE AssistantBlocks(_, _, _, _)
AssistantBlocks(blocks, text_parts, tool_calls, counts) ==
  IF Len(blocks) = 0
    THEN [text_parts |-> text_parts, tool_calls |-> tool_calls,
          counts |-> counts, raised |-> FALSE]
  ELSE
    LET block == Head(blocks)
        rest == Tail(blocks)
    IN IF ~IsDict(block)
         THEN [text_parts |-> text_parts, tool_calls |-> tool_calls,
               counts |-> counts, raised |-> TRUE]
       ELSE
         LET block_type == Get(block, "type", Null)
         IN IF block_type = "text"
              THEN AssistantBlocks(rest, Append(text_parts, Get(block, "text", "")),
                                   tool_calls, counts)
            ELSE IF block_type = "tool_use" THEN
              LET call == ToolCallOf(block)
              IN IF call.activity_kind = Raises
                   THEN [text_parts |-> text_parts, tool_calls |-> tool_calls,
                         counts |-> counts, raised |-> TRUE]
                   ELSE AssistantBlocks(rest, text_parts, Append(tool_calls, call),
                                        CountActivity(counts, call.activity_kind))
            ELSE AssistantBlocks(rest, text_parts, tool_calls, counts)

\* What one iteration of the line loop reads and writes.
ParserState ==
  [session_metadata |-> session_metadata,
   turns |-> turns,
   tool_results |-> tool_results,
   totals |-> totals,
   pending_user_message |-> pending_user_message,
   pending_user_timestamp |-> pending_user_timestamp,
   raised |-> FALSE]

\* entry_type == "summary" and cwd is None
SummaryEntry(S, entry) ==
  [S EXCEPT !.session_metadata =
     [@ EXCEPT !.cwd = Get(entry, "cwd", Null),
               !.git_branch = Get(entry, "git_branch", Null)]]

\* UserEntry that keeps the pending message of an earlier user entry when
\* the entry in hand has no text of its own
UserEntry_KeepsEarlierText(S, entry) ==
  LET message == Get(entry, "message", EmptyDict)
  IN IF ~IsDict(message) THEN [S EXCEPT !.raised = TRUE]
     ELSE
       LET content == Get(message, "content", JList(<<>>))
           S1 == [S EXCEPT !.pending_user_timestamp = Get(entry, "timestamp", Null)]
       IN IF IsStr(content)
            THEN [S1 EXCEPT !.pending_user_message =
                              IF Len(content.str) > 0 THEN content.str ELSE @]
          ELSE IF IsList(content) THEN
            LET r == UserBlocks(content.list, <<>>, S.tool_results)
            IN [S1 EXCEPT !.tool_results = r.tool_results,
                          !.pending_user_message =
                             IF Len(r.text_parts) > 0 THEN JoinLines(r.text_parts) ELSE @]
          ELSE [S1 EXCEPT !.raised = TRUE]

\* entry_type == "user".  message.get on a message that is not a dict raises
\* before anything is assigned; iterating a content that is neither a string
\* nor a list (null, a number) raises after pending_user_timestamp is set.
UserEntry(S, entry) ==
  LET message == Get(entry, "message", EmptyDict)
  IN IF ~IsDict(message) THEN [S EXCEPT !.raised = TRUE]
     ELSE
       LET content == Get(message, "content", JList(<<>>))
           S1 == [S EXCEPT !.pending_user_timestamp = Get(entry, "timestamp", Null)]
       IN IF IsStr(content)
            THEN [S1 EXCEPT !.pending_user_message =
                              IF Len(content.str) > 0 THEN content.str ELSE Null]
          ELSE IF IsList(content) THEN
            LET r == UserBlocks(content.list, <<>>, S.tool_results)
            IN [S1 EXCEPT !.tool_results = r.tool_results,
                          !.pending_user_message = JoinOrNone(r.text_parts)]
          ELSE [S1 EXCEPT !.raised = TRUE]

\* usage.get(key, 0)
UsageOf(usage) ==
  [input_tokens |-> Get(usage, "input_tokens", 0),
   output_tokens |-> Get(usage, "output_tokens", 0),
   cache_read_input_tokens |-> Get(usage, "cache_read_input_tokens", 0),
   cache_creation_input_tokens |-> Get(usage, "cache_creation_input_tokens", 0)]

\* AddUsage that leaves the cache-creation total alone
AddUsage_SkipsCacheCreation(S, assistant_usage) ==
  [S EXCEPT
     !.totals.input_tokens = @ + assistant_usage.input_tokens,
     !.totals.output_tokens = @ + assistant_usage.output_tokens,
     !.totals.cache_read_input_tokens = @ + assistant_usage.cache_read_input_tokens]

\* result["totals"][key] += assistant_usage[key], for the four keys
AddUsage(S, assistant_usage) ==
  [S EXCEPT
     !.totals.input_tokens = @ + assistant_usage.input_tokens,
     !.totals.output_tokens = @ + assistant_usage.output_tokens,
     !.totals.cache_read_input_tokens = @ + assistant_usage.cache_read_input_tokens,
     !.totals.cache_creation_input_tokens =
        @ + assistant_usage.cache_creation_input_tokens]

\* EmitTurn with the turn inserted at the front of the list
EmitTurn_Prepends(S, turn) ==
  [S EXCEPT !.turns = <<turn>> \o @,
            !.pending_user_message = Null,
            !.pending_user_timestamp = Null]

\* EmitTurn with the pending user message and timestamp left in place
EmitTurn_KeepsPending(S, turn) ==
  [S EXCEPT !.turns = Append(@, turn)]

\* result["turns"].append(turn), and the pending user message is cleared
EmitTurn(S, turn) ==
  [S EXCEPT !.turns = Append(@, turn),
            !.pending_user_message = Null,
            !.pending_user_timestamp = Null]

\* the blocks `for block in content` yields: the items of a list, the
\* characters of a string (each a str, so the first one raises)
IterBlocks(content) ==
  IF IsList(content) THEN content.list
  ELSE IF Len(content.str) > 0 THEN <<JStr(content.str)>>
  ELSE <<>>

\* entry_type == "assistant"
AssistantEntry(S, entry) ==
  LET message == Get(entry, "message", EmptyDict)
  IN IF ~IsDict(message) THEN [S EXCEPT !.raised = TRUE]
     ELSE
       LET content == Get(message, "content", JList(<<>>))
           usage == Get(message, "usage", EmptyDict)
           model == Get(message, "model", Null)
           S1 == IF Truthy(model) /\ S.session_metadata.model = Null
                   THEN [S EXCEPT !.session_metadata.model = model]
                   ELSE S
       IN IF ~(IsList(content) \/ IsStr(content)) THEN [S1 EXCEPT !.raised = TRUE]
          ELSE
            LET r == AssistantBlocks(IterBlocks(content), <<>>, <<>>,
                                     S.totals.activity_counts)
                S2 == [S1 EXCEPT !.totals.activity_counts = r.counts]
            IN IF r.raised \/ ~IsDict(usage) THEN [S2 EXCEPT !.raised = TRUE]
               ELSE
                 LET assistant_usage == UsageOf(usage)
                     turn ==
                       [user_message |-> S.pending_user_message,
                        user_timestamp |-> S.pending_user_timestamp,
                        assistant_response |->
                          [model |-> model,
                           text_content |-> JoinOrNone(r.text_parts),
                           usage |-> assistant_usage,
                           tool_calls |-> r.tool_calls,
                           timestamp |-> Get(entry, "timestamp", Null)]]
                 IN EmitTurn(AddUsage(S2, assistant_usage), turn)

\* A physical line is [raw |-> "blank"] (empty after strip), [raw |->
\* "garbage"] (json.loads raises JSONDecodeError) or [json |-> value].
BlankLine == [raw |-> "blank"]

GarbageLine == [raw |-> "garbage"]

JsonLine(value) == [json |-> value]

\* The body of `for line in f`.  entry.get on a JSON value that is not an
\* object raises AttributeError, which parse_transcript does not catch.
ProcessLine(S, l) ==
  IF "raw" \in DOMAIN l THEN S
  ELSE
    LET entry == l.json
    IN IF ~IsDict(entry) THEN [S EXCEPT !.raised = TRUE]
       ELSE
         LET entry_type == Get(entry, "type", Null)
         IN IF entry_type = "summary" /\ S.session_metadata.cwd = Null
              THEN SummaryEntry(S, entry)
            ELSE IF entry_type = "user" THEN UserEntry(S, entry)
            ELSE IF entry_type = "assistant" THEN AssistantEntry(S, entry)
            ELSE S

\* path.exists() is what the file system says; a missing file returns the
\* empty result at once.
OpenTranscript ==
  /\ pstatus = "start"
  /\ \E exists \in BOOLEAN : pstatus' = IF exists THEN "parsing" ELSE "returned"
  /\ UNCHANGED <<log, session_metadata, turns, tool_results, totals,
                 pending_user_message, pending_user_timestamp>>
  /\ UNCHANGED <<asmVars, mainVars, classifyVars>>

\* One iteration of `for line in f`, on a next line drawn from Lines.
ReadLine(Lines) ==
  /\ pstatus = "parsing"
  /\ Len(log) < MaxLines
  /\ \E l \in Lines :
       LET S == ProcessLine(ParserState, l)
       IN /\ log' = Append(log, l)
          /\ session_metadata' = S.session_metadata
          /\ turns' = S.turns
          /\ tool_results' = S.tool_results
          /\ totals' = S.totals
          /\ pending_user_message' = S.pending_user_message
          /\ pending_user_timestamp' = S.pending_user_timestamp
          /\ pstatus' = IF S.raised THEN "raised" ELSE "parsing"
  /\ UNCHANGED <<asmVars, mainVars, classifyVars>>

\* The file is exhausted: return result.
EndOfFile ==
  /\ pstatus = "parsing"
  /\ pstatus' = "returned"
  /\ UNCHANGED <<log, session_metadata, turns, tool_results, totals,
                 pending_user_message, pending_user_timestamp>>
  /\ UNCHANGED <<asmVars, mainVars, classifyVars>>

\* send_to_langfuse has not been called
AsmIdle ==
  /\ apc = "idle"
  /\ sink = "ok"
  /\ uuid_salt = "r1"
  /\ now = NoTime
  /\ first_timestamp = NoTime
  /\ events = <<>>
  /\ batch_calls = <<>>
  /\ prev_end_time = NoTime
  /\ pending_background_tasks = EmptyDict
  /\ i = 0
  /\ c = 0
  /\ start_time = NoTime
  /\ end_time = NoTime
  /\ generation_id = Null

\* main is not in the picture: the function in hand was called directly
MainIdle ==
  /\ mpc = "idle"
  /\ tracing = TRUE
  /\ stdin = [raw |-> "blank"]
  /\ exit_status = <<>>

\* classify_activity is not being called
ClassifyIdle ==
  /\ cpc = "idle"
  /\ arg_tool_name = ""
  /\ arg_tool_input = EmptyDict
  /\ ret_kind = ""

\* parse_transcript is entered
ParserStart ==
  /\ pstatus = "start"
  /\ log = <<>>
  /\ session_metadata = EmptyResult.session_metadata
  /\ turns = EmptyResult.turns
  /\ tool_results = EmptyResult.tool_results
  /\ totals = EmptyResult.totals
  /\ pending_user_message = Null
  /\ pending_user_timestamp = Null

-----------------------------------------------------------------------------
(* The transcript lines the parser is checked on.                          *)

TextBlock(text) == [type |-> "text", text |-> text]

ToolUse(id, name, input) == [type |-> "tool_use", id |-> id, name |-> name, input |-> input]

ToolResult(id, content) == [type |-> "tool_result", tool_use_id |-> id, content |-> content]

UserLine(ts, content) ==
  JsonLine([type |-> "user", timestamp |-> ts, message |-> [content |-> content]])

AssistantLine(ts, model, usage, blocks) ==
  JsonLine([type |-> "assistant", timestamp |-> ts,
            message |-> [model |-> model, usage |-> usage, content |-> JList(blocks)]])

ParseLines ==
  { BlankLine,
    GarbageLine,
    \* valid JSON that is not an object
    JsonLine(JList(<<>>)),
    \* an object of a kind the parser does not know
    JsonLine([type |-> "system", timestamp |-> "T1"]),
    JsonLine([type |-> "summary", cwd |-> "/repo", git_branch |-> "main"]),
    JsonLine([type |-> "summary", git_branch |-> "dev"]),
    UserLine("T1", JStr("fix bug")),
    UserLine("T2", JList(<<TextBlock("more"), ToolResult("tu1", JStr(<<"ok">>))>>)),
    UserLine("T3", JList(<<ToolResult("tu2", JStr(<<"done">>))>>)),
    \* blocks of unknown shape, and a tool result without an id
    UserLine(Null, JList(<<[type |-> "image"], JStr("raw"), ToolResult(Null, JNull)>>)),
    \* a content that is neither a string nor a list
    UserLine("T1", JNull),
    AssistantLine("T2", "model-a", [input_tokens |-> 1, output_tokens |-> 2],
                  <<TextBlock("done"), ToolUse("tu1", "Edit", EmptyDict)>>),
    AssistantLine("T3", "model-b",
                  [cache_read_input_tokens |-> 1, cache_creation_input_tokens |-> 3],
                  <<[type |-> "thinking", thinking |-> "hm"],
                    ToolUse("tu2", "Bash", [command |-> JStr(<<"pnpm", "test">>)]),
                    ToolUse(Null, "Read", EmptyDict)>>),
    AssistantLine(Null, Null, EmptyDict, <<[type |-> "server_tool_use"]>>),
    \* a block that is not an object, after a tool call
    AssistantLine("T3", "model-a", EmptyDict,
                  <<ToolUse("tu3", "Grep", EmptyDict), JStr("raw")>>) }

ParseInit == ParserStart /\ AsmIdle /\ MainIdle /\ ClassifyIdle

ReadParseLine == ReadLine(ParseLines)

ParseNext == OpenTranscript \/ ReadParseLine \/ EndOfFile

\* parse_transcript on every file of at most MaxLines lines of ParseLines
SpecParse == ParseInit /\ [][ParseNext]_vars

-----------------------------------------------------------------------------
(* Properties of parse_transcript.                                         *)

RECURSIVE SumOver(_, _)
SumOver(f, keys) ==
  IF keys = {} THEN 0
  ELSE LET k == CHOOSE x \in keys : TRUE
       IN f[k] + SumOver(f, keys \ {k})

\* sum(activity_counts.values())
SumCounts(counts) == SumOver(counts, DOMAIN counts)

\* the number of tool calls over a list of turns
RECURSIVE TotalToolCalls(_)
TotalToolCalls(ts) ==
  IF Len(ts) = 0 THEN 0
  ELSE Len(Head(ts).assistant_response.tool_calls) + TotalToolCalls(Tail(ts))

\* C1: whenever parse_transcript holds a result it can return (it has not
\* raised), the activity counts map has exactly the ten known kinds as
\* keys and its values sum to the number of tool calls over all emitted
\* turns.
C1_ActivityCountsSum ==
  pstatus # "raised" =>
    /\ DOMAIN totals.activity_counts = ActivityKinds
    /\ SumCounts(totals.activity_counts) = TotalToolCalls(turns)

\* a returned result with three tool calls of three kinds, the other
\* seven kinds present with count 0
C1_Witness ==
  /\ pstatus = "returned"
  /\ TotalToolCalls(turns) = 3
  /\ totals.activity_counts["CODE"] = 1
  /\ totals.activity_counts["TEST"] = 1
  /\ totals.activity_counts["EXPLORE"] = 1
  /\ totals.activity_counts["GIT"] = 0

\* A well-formed assistant entry: an object of type assistant whose message
\* is an object, whose content is a list of objects and whose usage is an
\* object.
WellFormedAssistant(l) ==
  /\ "json" \in DOMAIN l
  /\ IsDict(l.json)
  /\ Get(l.json, "type", Null) = "assistant"
  /\ LET message == Get(l.json, "message", EmptyDict)
     IN /\ IsDict(message)
        /\ IsDict(Get(message, "usage", EmptyDict))
        /\ LET content == Get(message, "content", JList(<<>>))
           IN /\ IsList(content)
              /\ \A k \in 1 .. Len(content.list) : IsDict(content.list[k])

\* C2: the emitted turns are, in order, one per well-formed assistant entry
\* read so far (same timestamp and model as that entry), and no other entry
\* adds a turn.
C2_OneTurnPerAssistantEntry ==
  LET entries == SelectSeq(log, WellFormedAssistant)
  IN /\ Len(turns) = Len(entries)
     /\ \A k \in 1 .. Len(turns) :
          /\ turns[k].assistant_response.timestamp =
               Get(entries[k].json, "timestamp", Null)
          /\ turns[k].assistant_response.model =
               Get(entries[k].json.message, "model", Null)

\* two turns from two different assistant entries, with other entries
\* before, between and after them
C2_Witness ==
  /\ pstatus = "returned"
  /\ Len(log) = 4
  /\ Len(turns) = 2
  /\ turns[1].assistant_response.timestamp = "T3"
  /\ turns[2].assistant_response.timestamp = "T2"
  /\ ~WellFormedAssistant(log[1])
  /\ ~WellFormedAssistant(log[3])

\* A malformed line: text that is not JSON, or JSON that is not an object.
Malformed(l) == l = GarbageLine \/ ("json" \in DOMAIN l /\ ~IsDict(l.json))

\* the loop has just read l
JustRead(l) == log' = Append(log, l)

\* C3 (as claimed): reading a malformed line changes nothing: the parse goes
\* on with the same turns, tool results, session metadata, totals and
\* pending user message and timestamp as without the line.
C3_MalformedLineChangesNothing ==
  [][\A l \in ParseLines :
       (JustRead(l) /\ Malformed(l)) =>
         /\ pstatus' = "parsing"
         /\ UNCHANGED <<session_metadata, turns, tool_results, totals,
                        pending_user_message, pending_user_timestamp>>]_vars

\* What does hold: a line that is not JSON at all is skipped.
GarbageLineChangesNothing ==
  [][JustRead(GarbageLine) =>
       /\ pstatus' = "parsing"
       /\ UNCHANGED <<session_metadata, turns, tool_results, totals,
                      pending_user_message, pending_user_timestamp>>]_vars

\* C4 (as claimed): no line makes parse_transcript raise; every line that is
\* not a usable entry is skipped and the lines after it are still read.
C4_NoLineRaises == pstatus # "raised"

-----------------------------------------------------------------------------
(* send_to_langfuse                                                        *)

\* trace_id = session_id, the hook input's session id
session_id == "session-1"

\* the wall-clock instants datetime.now can return: later than every
\* timestamp the transcript holds
NowValues == {Len(IsoTable) + 1}

\* the first parsable user timestamp over the turns (lines 607-612)
FirstUserTimestamp(ts) ==
  LET hits == {k \in 1 .. Len(ts) : parse_iso_timestamp(ts[k].user_timestamp) # NoTime}
  IN IF hits = {} THEN NoTime
     ELSE parse_iso_timestamp(ts[CHOOSE k \in hits : \A h \in hits : k <= h].user_timestamp)

\* the first truthy user message over the turns (lines 616-618)
FirstUserMessage(ts) ==
  LET hits == {k \in 1 .. Len(ts) : Truthy(ts[k].user_message)}
  IN IF hits = {} THEN Null
     ELSE ts[CHOOSE k \in hits : \A h \in hits : k <= h].user_message

\* LastAssistantText taken from the last turn, whatever its text
LastAssistantText_OfLastTurn(ts) ==
  IF Len(ts) = 0 THEN Null ELSE ts[Len(ts)].assistant_response.text_content

\* the last truthy assistant text over the turns (lines 619-621)
LastAssistantText(ts) ==
  LET hits == {k \in 1 .. Len(ts) : Truthy(ts[k].assistant_response.text_content)}
  IN IF hits = {} THEN Null
     ELSE ts[CHOOSE k \in hits : \A h \in hits : k >= h].assistant_response.text_content

\* first_timestamp after the fallback to now (lines 602-626)
TraceStart(ts, wall) ==
  IF FirstUserTimestamp(ts) = NoTime THEN wall ELSE FirstUserTimestamp(ts)

\* the trace-create event (lines 630-700)
TraceEvent(first_ts) ==
  [type |-> "trace-create",
   body |-> [id |-> session_id,
             name |-> "claude-code-session",
             input |-> FirstUserMessage(turns),
             output |-> LastAssistantText(turns),
             metadata |-> [session_id |-> session_id,
                           model |-> session_metadata.model,
                           git_branch |-> session_metadata.git_branch,
                           cwd |-> session_metadata.cwd,
                           activity_counts |-> totals.activity_counts,
                           total_tool_calls |-> TotalToolCalls(turns),
                           token_totals |->
                             [input_tokens |-> totals.input_tokens,
                              output_tokens |-> totals.output_tokens,
                              cache_read_input_tokens |-> totals.cache_read_input_tokens,
                              cache_creation_input_tokens |->
                                totals.cache_creation_input_tokens]],
             timestamp |-> first_ts]]

\* Lines 567-715: the sink is looked up, the turns are scanned once for the
\* trace-level fields, and the trace event opens the batch.  Without the
\* langfuse package or without either key the function returns here.
AsmStart ==
  /\ apc = "idle"
  /\ pstatus = "returned"
  /\ \E wall \in NowValues :
       IF sink \in {"no_package", "no_keys"}
         THEN /\ apc' = "unavailable"
              /\ UNCHANGED <<now, first_timestamp, events, prev_end_time,
                             pending_background_tasks, i>>
         ELSE /\ apc' = "turn"
              /\ now' = wall
              /\ first_timestamp' = TraceStart(turns, wall)
              /\ events' = <<TraceEvent(TraceStart(turns, wall))>>
              /\ prev_end_time' = NoTime
              /\ pending_background_tasks' = EmptyDict
              /\ i' = 1
  /\ UNCHANGED <<sink, uuid_salt, batch_calls, c, start_time, end_time, generation_id>>
  /\ UNCHANGED <<parserVars, mainVars, classifyVars>>

\* an event put at the head of the batch
AppendEvent_AtFront(batch, event) == <<event>> \o batch

\* an event put into the batch twice
AppendEvent_Twice(batch, event) == Append(Append(batch, event), event)

\* events.append(event)
AppendEvent(batch, event) == Append(batch, event)

\* start_time with the session's first timestamp preferred to prev_end_time
ResolveStart_FirstTimestamp(user_timestamp, prev_end, first_ts) ==
  IF user_timestamp # NoTime THEN user_timestamp ELSE first_ts

\* lines 729-734
ResolveStart(user_timestamp, prev_end, first_ts) ==
  IF user_timestamp # NoTime THEN user_timestamp
  ELSE IF prev_end # NoTime THEN prev_end
  ELSE first_ts

\* end_time without the fallback to start_time
ResolveEnd_NoFallback(assistant_timestamp, start) == assistant_timestamp

\* line 737: end_time = assistant_timestamp or start_time
ResolveEnd(assistant_timestamp, start) ==
  IF assistant_timestamp # NoTime THEN assistant_timestamp ELSE start

\* lines 742-747
GenerationIdOf(turn) ==
  generate_deterministic_id(
    OrElse(turn.user_timestamp, "") \o "|"
      \o OrElse(turn.assistant_response.timestamp, "") \o "|"
      \o OrElse(turn.user_message, ""))

\* the generation-create event of turn k (lines 750-774)
GenerationEvent(k, turn, gen_id, start, end) ==
  LET usage == turn.assistant_response.usage
  IN [type |-> "generation-create",
      body |-> [id |-> gen_id,
                trace_id |-> session_id,
                name |-> "llm-response-" \o ToString(k - 1),
                model |-> turn.assistant_response.model,
                input |-> turn.user_message,
                output |-> turn.assistant_response.text_content,
                start_time |-> start,
                end_time |-> end,
                usage_details |->
                  [input |-> usage.input_tokens,
                   output |-> usage.output_tokens,
                   total |-> usage.input_tokens + usage.output_tokens,
                   input_cache_read |-> usage.cache_read_input_tokens,
                   input_cache_creation |-> usage.cache_creation_input_tokens],
                metadata |->
                  [tool_call_count |-> Len(turn.assistant_response.tool_calls)]]]

\* Lines 717-774: the head of one iteration of `for i, turn in
\* enumerate(turns)`: the turn's times, its generation id and its
\* generation event.
AsmTurnBegin ==
  /\ apc = "turn"
  /\ i <= Len(turns)
  /\ LET turn == turns[i]
         user_timestamp == parse_iso_timestamp(turn.user_timestamp)
         assistant_timestamp == parse_iso_timestamp(turn.assistant_response.timestamp)
         start == ResolveStart(user_timestamp, prev_end_time, first_timestamp)
         end == ResolveEnd(assistant_timestamp, start)
     IN /\ start_time' = start
        /\ end_time' = end
        /\ generation_id' = GenerationIdOf(turn)
        /\ events' = AppendEvent(events,
                                 GenerationEvent(i, turn, GenerationIdOf(turn), start, end))
  /\ c' = 1
  /\ apc' = "calls"
  /\ UNCHANGED <<sink, uuid_salt, now, first_timestamp, batch_calls, prev_end_time,
                 pending_background_tasks, i>>
  /\ UNCHANGED <<parserVars, mainVars, classifyVars>>

\* Del that leaves the key in the dict
Del_KeepsKey(d, k) == d

\* del d[k]
Del(d, k) == [x \in DOMAIN d \ {k} |-> d[x]]

\* d1 | d2 on dicts with disjoint keys
Merge(d1, d2) == [x \in DOMAIN d1 \cup DOMAIN d2 |-> IF x \in DOMAIN d1 THEN d1[x] ELSE d2[x]]

\* lines 796-803: the pending entry of a background task a Bash call started
PendingTask(tool_call, gen_id, start) ==
  [bash_tool_use_id |-> tool_call.tool_use_id,
   generation_id |-> gen_id,
   activity_kind |-> tool_call.activity_kind,
   tool_name |-> tool_call.tool_name,
   start_time |-> start,
   command |-> IF IsDict(tool_call.tool_input)
                 THEN Get(tool_call.tool_input, "command", JNull)
                 ELSE JNull]

\* line 809: task_id and is_blocking and task_id in pending_background_tasks
IsCompletion(info, pending) ==
  Truthy(info.task_id) /\ info.is_blocking /\ info.task_id \in DOMAIN pending

\* the completion taken at the start of the turn that observed it
CompletionTime_TurnStart(start, end) == start

\* line 817: completion_time=end_time, the end of the turn in hand
CompletionTime(start, end) == end

\* the umbrella span parented under the generation that observed the completion
UmbrellaFor_CompletionParent(task_id, pending_task, completion_time, current_gen_id) ==
  create_background_umbrella_span(task_id, pending_task, completion_time,
                                  session_id, current_gen_id)

\* lines 814-821: the umbrella span, parented under the generation the
\* pending entry recorded
UmbrellaFor(task_id, pending_task, completion_time, current_gen_id) ==
  create_background_umbrella_span(task_id, pending_task, completion_time,
                                  session_id, pending_task.generation_id)

\* Lines 777-850: one iteration of `for tool_call in tool_calls`, as the
\* pending map and the batch after it.
ToolCallStep(tool_call, pending, batch, gen_id, start, end, results, salt) ==
  LET tool_name == tool_call.tool_name
      tool_use_id == tool_call.tool_use_id
      tool_input == tool_call.tool_input
      activity_kind == tool_call.activity_kind
      tool_output == IF Truthy(tool_use_id) THEN Get(results, tool_use_id, JNull)
                     ELSE JNull
      background_task_id ==
        IF tool_name = "Bash" /\ TruthyJson(tool_output)
          THEN extract_background_task_id(tool_output)
          ELSE Null
      started == Truthy(background_task_id)
      pending1 == IF started
                    THEN Put(pending, background_task_id,
                             PendingTask(tool_call, gen_id, start))
                    ELSE pending
      info == extract_task_output_info(tool_name, tool_input)
      completed == IsCompletion(info, pending1)
      span_metadata ==
        Merge([activity_kind |-> activity_kind, tool_use_id |-> tool_use_id],
          Merge(IF started THEN [is_background_start |-> TRUE] ELSE EmptyDict,
            Merge(IF completed
                    THEN [is_background_completion |-> TRUE,
                          background_wall_time_seconds |->
                            CompletionTime(start, end)
                              - pending1[info.task_id].start_time]
                    ELSE EmptyDict,
                  IF completed THEN [background_task_id |-> info.task_id]
                  ELSE IF started THEN [background_task_id |-> background_task_id]
                  ELSE EmptyDict)))
      batch1 == IF completed
                  THEN AppendEvent(batch,
                                   UmbrellaFor(info.task_id, pending1[info.task_id],
                                               CompletionTime(start, end), gen_id))
                  ELSE batch
      span_id == IF Truthy(tool_use_id) THEN generate_deterministic_id(tool_use_id)
                 ELSE [uuid4 |-> <<salt, Len(batch1) + 1>>]
      span == [type |-> "span-create",
               body |-> [id |-> span_id,
                         trace_id |-> session_id,
                         parent_observation_id |-> gen_id,
                         name |-> activity_kind \o "/" \o tool_name,
                         input |-> tool_input,
                         output |-> tool_output,
                         start_time |-> start,
                         end_time |-> end,
                         metadata |-> span_metadata]]
  IN [pending |-> IF completed THEN Del(pending1, info.task_id) ELSE pending1,
      events |-> AppendEvent(batch1, span)]

AsmToolCall ==
  /\ apc = "calls"
  /\ c <= Len(turns[i].assistant_response.tool_calls)
  /\ LET r == ToolCallStep(turns[i].assistant_response.tool_calls[c],
                           pending_background_tasks, events, generation_id,
                           start_time, end_time, tool_results, uuid_salt)
     IN /\ pending_background_tasks' = r.pending
        /\ events' = r.events
  /\ c' = c + 1
  /\ UNCHANGED <<apc, sink, uuid_salt, now, first_timestamp, batch_calls,
                 prev_end_time, i, start_time, end_time, generation_id>>
  /\ UNCHANGED <<parserVars, mainVars, classifyVars>>

\* line 853: prev_end_time = end_time
NextPrevEnd(prev_end, end, turn) == end

\* Lines 852-853: the tool calls of the turn are done.
AsmTurnEnd ==
  /\ apc = "calls"
  /\ c > Len(turns[i].assistant_response.tool_calls)
  /\ prev_end_time' = NextPrevEnd(prev_end_time, end_time, turns[i])
  /\ i' = i + 1
  /\ apc' = "turn"
  /\ UNCHANGED <<sink, uuid_salt, now, first_timestamp, events, batch_calls,
                 pending_background_tasks, c, start_time, end_time, generation_id>>
  /\ UNCHANGED <<parserVars, mainVars, classifyVars>>

\* a failure of the batch call swallowed after it is logged
SendOutcome_Swallowed(s) == "sent"

\* lines 860-865: the batch call returns, or what it raises is logged and
\* raised again
SendOutcome(s) == IF s = "fails" THEN "raised" ELSE "sent"

\* Lines 855-865: the batch goes to the sink; a failure of the sink is
\* logged and raised again.
AsmSend ==
  /\ apc = "turn"
  /\ i > Len(turns)
  /\ batch_calls' = Append(batch_calls, events)
  /\ apc' = SendOutcome(sink)
  /\ UNCHANGED <<sink, uuid_salt, now, first_timestamp, events, prev_end_time,
                 pending_background_tasks, i, c, start_time, end_time, generation_id>>
  /\ UNCHANGED <<parserVars, mainVars, classifyVars>>

-----------------------------------------------------------------------------
(* The transcripts the assembler is checked on.                            *)

\* parse_transcript as one call: the line loop over a whole file, stopped
\* by the first line that raises.
RECURSIVE ParseFrom(_, _)
ParseFrom(S, lines) ==
  IF Len(lines) = 0 \/ S.raised THEN S
  ELSE ParseFrom(ProcessLine(S, Head(lines)), Tail(lines))

ParseFile(lines) ==
  ParseFrom([session_metadata |-> EmptyResult.session_metadata,
             turns |-> EmptyResult.turns,
             tool_results |-> EmptyResult.tool_results,
             totals |-> EmptyResult.totals,
             pending_user_message |-> Null,
             pending_user_timestamp |-> Null,
             raised |-> FALSE],
            lines)

\* the sequences over S of length lo .. hi
SeqsOf(S, lo, hi) == UNION {[1 .. n -> S] : n \in lo .. hi}

RECURSIVE Flatten(_)
Flatten(seqs) == IF Len(seqs) = 0 THEN <<>> ELSE Head(seqs) \o Flatten(Tail(seqs))

\* One exchange: a user entry (none when uts is Null) and the assistant
\* entry that answers it.
Segment(uts, ats, blocks) ==
  (IF uts = Null THEN <<>> ELSE <<UserLine(uts, JStr("go"))>>)
    \o <<AssistantLine(ats, "model-a", EmptyDict, blocks)>>

\* exchanges that differ in their timestamps only
TimeSegments ==
  {Segment(uts, ats, <<TextBlock("ok")>>) :
     uts \in {Null, BadTs, "T1", "T2"}, ats \in {Null, "T3"}}
  \cup {Segment(uts, BadTs, <<TextBlock("ok")>>) : uts \in {Null, "T1"}}

TimeLogs == {Flatten(segs) : segs \in SeqsOf(TimeSegments, 0, MaxTurns)}

BashCall(id) == ToolUse(id, "Bash", [command |-> JStr(<<"make">>)])

TaskOutputCall(id, input) == ToolUse(id, "TaskOutput", input)

\* the tool calls of an exchange that starts or retrieves background work
BgBlocks ==
  { <<BashCall("b1")>>,
    <<TaskOutputCall("to1", [task_id |-> "bg1"])>>,
    <<TaskOutputCall("to2", [task_id |-> "bg1", block |-> FALSE])>>,
    <<TaskOutputCall("to2", [task_id |-> "bg1", block |-> FALSE]),
      TaskOutputCall("to3", [task_id |-> "bg1", block |-> TRUE])>>,
    <<BashCall("b1"), TaskOutputCall("to3", [task_id |-> "bg1", block |-> TRUE])>>,
    <<BashCall("b9"), TaskOutputCall("to4", [task_id |-> "bg2"])>> }

BgSegments ==
  {Segment("T1", "T2", blocks) : blocks \in BgBlocks}
  \cup {Segment(Null, "T3", blocks) :
          blocks \in BgBlocks \ {<<BashCall("b9"), TaskOutputCall("to4", [task_id |-> "bg2"])>>}}

\* the recorded outputs: b1 was sent to the background as task bg1, b9 ran
\* in the foreground
ResultsLine ==
  UserLine(Null,
           JList(<<ToolResult("b1", JList(<<[type |-> "text",
                                            text |-> <<BgMarker, "bg1.", "Output",
                                                       "is", "being", "written">>]>>)),
                   ToolResult("b9", JStr(<<"ok">>))>>))

BgLogs == {Flatten(segs) \o <<ResultsLine>> : segs \in SeqsOf(BgSegments, 1, MaxTurns)}

AsmLogs == TimeLogs \cup BgLogs

\* parse_transcript has returned the result of one of AsmLogs and
\* send_to_langfuse is about to be called with it
AsmInit ==
  /\ \E lines \in AsmLogs :
       LET S == ParseFile(lines)
       IN /\ log = lines
          /\ session_metadata = S.session_metadata
          /\ turns = S.turns
          /\ tool_results = S.tool_results
          /\ totals = S.totals
          /\ pending_user_message = S.pending_user_message
          /\ pending_user_timestamp = S.pending_user_timestamp
          /\ pstatus = "returned"
  /\ AsmIdle
  /\ MainIdle
  /\ ClassifyIdle

AsmNext == AsmStart \/ AsmTurnBegin \/ AsmToolCall \/ AsmTurnEnd \/ AsmSend

\* send_to_langfuse on the parse result of every transcript of AsmLogs
SpecAssemble == AsmInit /\ [][AsmNext]_vars

-----------------------------------------------------------------------------
(* Properties of send_to_langfuse.                                         *)

IsGeneration(e) == e.type = "generation-create"

IsUmbrella(e) ==
  e.type = "span-create" /\ Get(e.body.metadata, "is_background", FALSE)

\* the generation events of the batch: the k-th is that of turn k
Generations == SelectSeq(events, IsGeneration)

TaskIds == {"bg1", "bg2"}

\* the places of the tool calls of the parsed transcript: <<turn, call>>
Calls ==
  {<<k, j>> : k \in 1 .. Len(turns), j \in 1 .. MaxTurns + 2} \cap
  {q \in (1 .. Len(turns)) \X (1 .. MaxTurns + 2) :
     q[2] <= Len(turns[q[1]].assistant_response.tool_calls)}

CallAt(q) == turns[q[1]].assistant_response.tool_calls[q[2]]

\* log order of tool calls
Before(p, q) == p[1] < q[1] \/ (p[1] = q[1] /\ p[2] < q[2])

\* a Bash call whose recorded output carries the start marker of task T
StartsTask(p, T) ==
  /\ CallAt(p).tool_name = "Bash"
  /\ Truthy(CallAt(p).tool_use_id)
  /\ CallAt(p).tool_use_id \in DOMAIN tool_results
  /\ extract_background_task_id(tool_results[CallAt(p).tool_use_id]) = T

\* a TaskOutput call for T, by its input
Retrieval(q, T) ==
  /\ CallAt(q).tool_name = "TaskOutput"
  /\ Get(CallAt(q).tool_input, "task_id", Null) = T

NoBlockField(q) == "block" \notin DOMAIN CallAt(q).tool_input

BlockIs(q, b) ==
  "block" \in DOMAIN CallAt(q).tool_input /\ CallAt(q).tool_input.block = b

BlockingRetrieval(q, T) == Retrieval(q, T) /\ (NoBlockField(q) \/ BlockIs(q, TRUE))

\* the start markers of T before call q, and the latest of them
StartsBefore(T, q) == {p \in Calls : StartsTask(p, T) /\ Before(p, q)}

Origin(T, q) ==
  CHOOSE p \in StartsBefore(T, q) : \A o \in StartsBefore(T, q) : o = p \/ Before(o, p)

\* by the transcript alone: T was started before q and no blocking
\* retrieval of it lies between its latest start and q
PendingAt(T, q) ==
  /\ StartsBefore(T, q) # {}
  /\ ~\E r \in Calls :
        Before(Origin(T, q), r) /\ Before(r, q) /\ BlockingRetrieval(r, T)

\* the step that handles tool call <<i, c>>
CallStep == apc = "calls" /\ c' = c + 1

\* the events a step appends to the batch
Appended == SubSeq(events', Len(events) + 1, Len(events'))

\* C5: the tool-call step of a blocking TaskOutput for a task T that a Bash
\* call started earlier (same or earlier turn) and that is still pending
\* appends exactly one umbrella span for T, ahead of the call's own span: it
\* starts at the start time of the generation of the Bash call's turn and
\* ends at the end time of the generation of the TaskOutput's turn, the
\* recorded wall time is their difference, and T leaves the pending set.
\* No other tool-call step appends an umbrella span.
C5_UmbrellaOnBlockingRetrieval ==
  [][CallStep =>
       LET q == <<i, c>>
           done == {T \in TaskIds : BlockingRetrieval(q, T) /\ PendingAt(T, q)}
       IN /\ \A T \in done :
               LET p == Origin(T, q)
                   umbrella == Appended[1]
                   span == Appended[2]
               IN /\ Len(Appended) = 2
                  /\ IsUmbrella(umbrella) /\ ~IsUmbrella(span)
                  /\ umbrella.body.metadata.background_task_id = T
                  /\ umbrella.body.start_time = Generations[p[1]].body.start_time
                  /\ umbrella.body.end_time = Generations[i].body.end_time
                  /\ span.body.metadata.background_wall_time_seconds =
                       Generations[i].body.end_time - Generations[p[1]].body.start_time
                  /\ T \notin DOMAIN pending_background_tasks'
          /\ done = {} =>
               /\ Len(Appended) = 1
               /\ ~IsUmbrella(Appended[1])]_vars

\* the batch holds an umbrella span that starts with an earlier turn than
\* the one whose end closes it
C5_Witness ==
  \E n \in 1 .. Len(events) :
    /\ IsUmbrella(events[n])
    /\ events[n].body.metadata.background_task_id = "bg1"
    /\ events[n].body.start_time = 1
    /\ events[n].body.end_time = 3
    /\ events[n + 1].body.metadata.background_wall_time_seconds = 2
    /\ "bg1" \notin DOMAIN pending_background_tasks

\* C6: the step of a TaskOutput call with block = false for a pending task
\* appends the call's span only and leaves the pending set as it is; the
\* step of a TaskOutput call with no block field (or block = true) for a
\* pending task appends the task's umbrella span and removes the task.
C6_NonBlockingLeavesPending ==
  [][CallStep =>
       \A T \in DOMAIN pending_background_tasks :
         /\ (Retrieval(<<i, c>>, T) /\ BlockIs(<<i, c>>, FALSE)) =>
              /\ pending_background_tasks' = pending_background_tasks
              /\ Len(Appended) = 1
              /\ ~IsUmbrella(Appended[1])
         /\ (Retrieval(<<i, c>>, T) /\ (NoBlockField(<<i, c>>) \/ BlockIs(<<i, c>>, TRUE))) =>
              /\ Len(Appended) = 2
              /\ IsUmbrella(Appended[1])
              /\ Appended[1].body.metadata.background_task_id = T
              /\ T \notin DOMAIN pending_background_tasks']_vars

\* a non-blocking retrieval of bg1 was handled while bg1 was pending, and a
\* later blocking retrieval still produced the umbrella span
C6_Witness ==
  \E n \in 1 .. Len(events) : \E m \in 1 .. Len(events) : \E u \in 1 .. Len(events) :
    /\ n < m /\ m < u
    /\ Get(events[n].body.metadata, "is_background_start", FALSE)
    /\ events[m].type = "span-create"
    /\ events[m].body.name = "OTHER/TaskOutput"
    /\ Get(events[m].body.input, "block", TRUE) = FALSE
    /\ "is_background_completion" \notin DOMAIN events[m].body.metadata
    /\ IsUmbrella(events[u])

\* C7: the umbrella span a tool-call step appends for a task T has for
\* parent the id of the generation of the turn of T's Bash call; when the
\* turn in hand has another generation id, that id is not the parent.
C7_UmbrellaParentIsOriginGeneration ==
  [][(CallStep /\ IsUmbrella(Appended[1])) =>
       LET T == Appended[1].body.metadata.background_task_id
           p == Origin(T, <<i, c>>)
       IN /\ StartsBefore(T, <<i, c>>) # {}
          /\ Appended[1].body.parent_observation_id = Generations[p[1]].body.id
          /\ Appended[1].body.parent_observation_id = GenerationIdOf(turns[p[1]])
          /\ GenerationIdOf(turns[p[1]]) # generation_id =>
               Appended[1].body.parent_observation_id # generation_id]_vars

\* an umbrella span whose parent is not the generation that precedes it in
\* the batch, the one of the turn that observed the completion
C7_Witness ==
  \E n \in 1 .. Len(events) : \E g \in 1 .. Len(events) :
    /\ g < n
    /\ IsUmbrella(events[n])
    /\ IsGeneration(events[g])
    /\ \A h \in (g + 1) .. (n - 1) : ~IsGeneration(events[h])
    /\ events[n].body.parent_observation_id # events[g].body.id
    /\ \E o \in 1 .. (g - 1) :
         /\ IsGeneration(events[o])
         /\ events[n].body.parent_observation_id = events[o].body.id

\* the parsed timestamps of turn k
UserTime(k) == parse_iso_timestamp(turns[k].user_timestamp)

AssistantTime(k) == parse_iso_timestamp(turns[k].assistant_response.timestamp)

\* C8: the generation of a turn starts at the turn's own user timestamp
\* when that parses; otherwise, when a turn precedes it, at the end time of
\* the preceding turn's generation.
C8_StartFromUserTimestampOrPreviousEnd ==
  \A k \in 1 .. Len(Generations) :
    /\ UserTime(k) # NoTime => Generations[k].body.start_time = UserTime(k)
    /\ (UserTime(k) = NoTime /\ k > 1) =>
         Generations[k].body.start_time = Generations[k - 1].body.end_time

\* a third turn without a user timestamp starts where the second ended,
\* which is neither the first turn's end nor the first user timestamp
C8_Witness ==
  /\ Len(Generations) >= 3
  /\ UserTime(3) = NoTime
  /\ Generations[3].body.start_time = Generations[2].body.end_time
  /\ Generations[2].body.end_time # Generations[1].body.end_time
  /\ Generations[2].body.end_time # first_timestamp
  /\ UserTime(2) # NoTime
  /\ Generations[2].body.start_time = UserTime(2)

\* the first timestamp of the turns that parses, user and assistant
\* timestamps alike, in the order of the log
RECURSIVE FirstSeenFrom(_)
FirstSeenFrom(k) ==
  IF k > Len(turns) THEN NoTime
  ELSE IF UserTime(k) # NoTime THEN UserTime(k)
  ELSE IF AssistantTime(k) # NoTime THEN AssistantTime(k)
  ELSE FirstSeenFrom(k + 1)

FirstSeenTimestamp == FirstSeenFrom(1)

\* C9: a first turn without a parsable user timestamp starts at the first
\* parsable timestamp seen anywhere in the session, a user or an assistant
\* one, and at the current time only when the session has none.
C9_FirstTurnStartsAtFirstSeenTimestamp ==
  (Len(Generations) >= 1 /\ UserTime(1) = NoTime) =>
    Generations[1].body.start_time =
      IF FirstSeenTimestamp # NoTime THEN FirstSeenTimestamp ELSE now

\* C10: the generation of a turn ends at the assistant timestamp when that
\* parses and at the turn's start time otherwise, and once a turn is done
\* prev_end_time is that end time, with or without an assistant timestamp.
C10_EndFromAssistantTimestampOrStart ==
  /\ \A k \in 1 .. Len(Generations) :
       Generations[k].body.end_time =
         IF AssistantTime(k) # NoTime THEN AssistantTime(k)
         ELSE Generations[k].body.start_time
  /\ (apc = "turn" /\ i > 1) => prev_end_time = Generations[i - 1].body.end_time
  /\ apc = "calls" => end_time = Generations[i].body.end_time

\* two turns are done: the second has no assistant timestamp, ends where
\* it started and left that time in prev_end_time
C10_Witness ==
  /\ apc = "turn" /\ i = 3
  /\ AssistantTime(1) # NoTime
  /\ AssistantTime(2) = NoTime
  /\ UserTime(2) # NoTime
  /\ Generations[2].body.end_time = UserTime(2)
  /\ prev_end_time = UserTime(2)
  /\ prev_end_time # Generations[1].body.end_time

-----------------------------------------------------------------------------
(* classify_activity, called on its own.                                   *)

\* the tool names the classifier knows, Bash, and names it does not know
ClassifyNames ==
  {"Edit", "Write", "NotebookEdit", "TodoWrite", "EnterPlanMode", "ExitPlanMode",
   "AskUserQuestion", "WebSearch", "WebFetch", "Read", "Glob", "Grep", "LSP", "LS",
   "Task", "ListMcpResourcesTool", "ReadMcpResourceTool", "Bash", "TaskOutput",
   "Unknown", Null}

ClassifyWords ==
  {"git", "status", "gh", "pnpm", "npm", "test", "install", "build", "run",
   "cargo", "make", "&&", "uvx", "pytest", "ls", "mkdir"}

\* every command of at most two of these words, and some longer ones that
\* match several pattern groups
ClassifyCommands ==
  SeqsOf(ClassifyWords, 0, 2)
  \cup { <<"git", "status", "&&", "npm", "test">>,
         <<"cargo", "test", "&&", "cargo", "build">>,
         <<"npm", "run", "build", "&&", "npm", "install">>,
         <<"pnpm", "install", "&&", "pnpm", "test">>,
         <<"mkdir", "x", "&&", "make">>,
         <<"uvx", "ruff", "check">> }

\* the inputs: none, an empty mapping, a mapping without a command, a
\* command that is not a string, an input that is not a mapping, and the
\* commands above
ClassifyInputs ==
  {JNull, EmptyDict, [file_path |-> "a.py"], [command |-> JNull],
   [command |-> JList(<<"ls">>)], JStr(<<"ls">>)}
  \cup {[command |-> JStr(cmd)] : cmd \in ClassifyCommands}

ClassifyInit ==
  /\ cpc = "call"
  /\ arg_tool_name \in ClassifyNames
  /\ arg_tool_input \in ClassifyInputs
  /\ ret_kind = ""
  /\ ParserStart /\ AsmIdle /\ MainIdle

\* the call: it returns a kind or an exception leaves it
Classify ==
  /\ cpc = "call"
  /\ ret_kind' = classify_activity(arg_tool_name, arg_tool_input)
  /\ cpc' = IF classify_activity(arg_tool_name, arg_tool_input) = Raises
              THEN "raised" ELSE "returned"
  /\ UNCHANGED <<arg_tool_name, arg_tool_input>>
  /\ UNCHANGED <<parserVars, asmVars, mainVars>>

\* a second call with the same arguments
ClassifyAgain ==
  /\ cpc = "returned"
  /\ ret_kind' = classify_activity(arg_tool_name, arg_tool_input)
  /\ cpc' = "returned twice"
  /\ UNCHANGED <<arg_tool_name, arg_tool_input>>
  /\ UNCHANGED <<parserVars, asmVars, mainVars>>

ClassifyNext == Classify \/ ClassifyAgain

SpecClassify == ClassifyInit /\ [][ClassifyNext]_vars

-----------------------------------------------------------------------------
(* Properties of classify_activity.                                        *)

\* the kind the tool name alone decides, Null when it decides none
KindOfName(name) ==
  IF name \in {"Edit", "Write", "NotebookEdit"} THEN "CODE"
  ELSE IF name \in {"TodoWrite", "EnterPlanMode", "ExitPlanMode"} THEN "PLAN"
  ELSE IF name = "AskUserQuestion" THEN "COMMUNICATE"
  ELSE IF name \in {"WebSearch", "WebFetch"} THEN "RESEARCH"
  ELSE IF name \in {"Read", "Glob", "Grep", "LSP", "LS", "Task",
                    "ListMcpResourcesTool", "ReadMcpResourceTool"} THEN "EXPLORE"
  ELSE Null

\* the argument is a mapping with a string for command
HasCommandText == IsDict(arg_tool_input) /\ IsStr(Get(arg_tool_input, "command", JNull))

CommandText == arg_tool_input.command.str

\* C13: a tool name of one of the five name sets decides the kind whatever
\* the input holds; for Bash with a command string the kind is that of the
\* first group the command matches in the order GIT, TEST, BUILD, SETUP,
\* and OTHER when it matches none; any other tool is OTHER whatever command
\* text its input holds.  `pnpm test` is TEST and `npm install` is SETUP.
C13_FirstMatchInPriorityOrder ==
  cpc \in {"returned", "returned twice"} =>
    /\ KindOfName(arg_tool_name) # Null => ret_kind = KindOfName(arg_tool_name)
    /\ (arg_tool_name = "Bash" /\ HasCommandText) =>
         /\ git_patterns(CommandText) => ret_kind = "GIT"
         /\ (test_patterns(CommandText) /\ ~git_patterns(CommandText)) =>
              ret_kind = "TEST"
         /\ (build_patterns(CommandText) /\ ~git_patterns(CommandText)
               /\ ~test_patterns(CommandText)) => ret_kind = "BUILD"
         /\ (setup_patterns(CommandText) /\ ~git_patterns(CommandText)
               /\ ~test_patterns(CommandText) /\ ~build_patterns(CommandText)) =>
              ret_kind = "SETUP"
         /\ (~git_patterns(CommandText) /\ ~test_patterns(CommandText)
               /\ ~build_patterns(CommandText) /\ ~setup_patterns(CommandText)) =>
              ret_kind = "OTHER"
         /\ CommandText = <<"pnpm", "test">> => ret_kind = "TEST"
         /\ CommandText = <<"npm", "install">> => ret_kind = "SETUP"
    /\ (arg_tool_name # "Bash" /\ KindOfName(arg_tool_name) = Null) => ret_kind = "OTHER"

\* a Bash command that matches the TEST and the SETUP group came out as TEST
C13_Witness ==
  /\ cpc = "returned"
  /\ arg_tool_name = "Bash"
  /\ HasCommandText
  /\ test_patterns(CommandText) /\ setup_patterns(CommandText)
  /\ ~git_patterns(CommandText)
  /\ ret_kind = "TEST"

\* C14: classify_activity returns, for every tool name and every input
\* mapping, one of the ten kinds.
C14_ClassifyIsTotal ==
  (cpc # "call" /\ (IsDict(arg_tool_input) \/ arg_tool_input = JNull)) =>
    /\ cpc # "raised"
    /\ ret_kind \in ActivityKinds

-----------------------------------------------------------------------------
(* Properties of parse_transcript: session metadata and the pending user   *)
(* message.                                                                *)

IsEntry(l) == "json" \in DOMAIN l /\ IsDict(l.json)

EntryType(l) == IF IsEntry(l) THEN Get(l.json, "type", Null) ELSE Null

\* what line l offers for a field of the session metadata
Offered(l, field) ==
  IF EntryType(l) = "summary" /\ field \in {"cwd", "git_branch"}
    THEN Get(l.json, field, Null)
  ELSE IF EntryType(l) = "assistant" /\ field = "model"
    THEN Get(Get(l.json, "message", EmptyDict), "model", Null)
  ELSE Null

\* the first value that is not null among those the lines read offer
FirstOffered(field) ==
  LET hits == {n \in 1 .. Len(log) : Offered(log[n], field) # Null}
  IN IF hits = {} THEN Null
     ELSE Offered(log[CHOOSE n \in hits : \A h \in hits : n <= h], field)

\* C12: after any sequence of entries each of cwd, git_branch and model
\* holds the first non-null value a summary entry (cwd, git_branch) or an
\* assistant entry (model) offered for it; so a field that is set is never
\* changed or reset.
C12_MetadataFirstValueWins ==
  pstatus # "raised" =>
    \A field \in {"cwd", "git_branch", "model"} :
      session_metadata[field] = FirstOffered(field)

\* the places in the log of the assistant entries, in order
AssistantPlaces == {n \in 1 .. Len(log) : EntryType(log[n]) = "assistant"}

\* the place of the assistant entry of turn k
PlaceOfTurn(k) ==
  CHOOSE n \in AssistantPlaces : Cardinality({m \in AssistantPlaces : m <= n}) = k

\* the user entries between the assistant entry of turn k and the one before
UserPlacesOf(k) ==
  {n \in 1 .. Len(log) :
     /\ EntryType(log[n]) = "user"
     /\ n < PlaceOfTurn(k)
     /\ k > 1 => n > PlaceOfTurn(k - 1)}

UserContent(l) == Get(Get(l.json, "message", EmptyDict), "content", JList(<<>>))

\* a user entry that carries tool results and nothing else
JustToolResults(l) ==
  /\ IsList(UserContent(l))
  /\ Len(UserContent(l).list) > 0
  /\ \A b \in 1 .. Len(UserContent(l).list) :
       /\ IsDict(UserContent(l).list[b])
       /\ Get(UserContent(l).list[b], "type", Null) = "tool_result"

\* the text of a user entry, as the entry's own blocks give it
UserText(l) ==
  IF IsStr(UserContent(l))
    THEN (IF Len(UserContent(l).str) > 0 THEN UserContent(l).str ELSE Null)
    ELSE JoinOrNone(UserBlocks(UserContent(l).list, <<>>, EmptyDict).text_parts)

\* C17: the turn of an assistant entry with no user message before it (no
\* user entry since the turn before, or only user entries that carry just
\* tool results) has a null user_message and a null user_timestamp.
C17_ContinuationHasNoUserFields ==
  (pstatus # "raised" /\ Len(turns) = Cardinality(AssistantPlaces)) =>
    \A k \in 1 .. Len(turns) :
      (\A n \in UserPlacesOf(k) : JustToolResults(log[n])) =>
        /\ turns[k].user_message = Null
        /\ turns[k].user_timestamp = Null

\* C18: a turn carries the text and the timestamp of the last user entry
\* read since the turn before it, and null for both when there is none; so
\* no user entry gives its text or timestamp to two turns, and a second
\* assistant entry with no user entry in between gets null for both.  The
\* pending message and timestamp are those of the last user entry read
\* after the last assistant entry, null right after a turn.
C18_UserMessageGoesToNextTurnOnly ==
  (pstatus # "raised" /\ Len(turns) = Cardinality(AssistantPlaces)) =>
    /\ \A k \in 1 .. Len(turns) :
         IF UserPlacesOf(k) = {}
           THEN /\ turns[k].user_message = Null
                /\ turns[k].user_timestamp = Null
           ELSE LET u == CHOOSE n \in UserPlacesOf(k) : \A m \in UserPlacesOf(k) : m <= n
                IN /\ turns[k].user_message = UserText(log[u])
                   /\ turns[k].user_timestamp = Get(log[u].json, "timestamp", Null)
    /\ LET after == {n \in 1 .. Len(log) :
                       /\ EntryType(log[n]) = "user"
                       /\ \A a \in AssistantPlaces : a < n}
       IN IF after = {}
            THEN pending_user_message = Null /\ pending_user_timestamp = Null
            ELSE LET u == CHOOSE n \in after : \A m \in after : m <= n
                 IN /\ pending_user_message = UserText(log[u])
                    /\ pending_user_timestamp = Get(log[u].json, "timestamp", Null)

\* a user entry, its turn, and a second assistant entry right after: the
\* second turn has neither the message nor the timestamp of the first
C18_Witness ==
  /\ pstatus = "returned"
  /\ Len(log) = 3
  /\ EntryType(log[1]) = "user"
  /\ EntryType(log[2]) = "assistant"
  /\ EntryType(log[3]) = "assistant"
  /\ Len(turns) = 2
  /\ turns[1].user_message = "fix bug"
  /\ turns[1].user_timestamp = "T1"
  /\ turns[2].user_message = Null
  /\ turns[2].user_timestamp = Null
  /\ pending_user_message = Null

-----------------------------------------------------------------------------
(* main                                                                    *)

\* what the ingestion sink can be: usable, langfuse not installed, a key
\* not set, or a batch call that fails
Sinks == {"ok", "no_package", "no_keys", "fails"}

\* two runs draw different uuid4 values
Salts == {"r1", "r2"}

\* what standard input can hold: text that is not JSON, JSON that is not an
\* object, an object without transcript_path, with an empty one, with one
HookInputs ==
  { GarbageLine,
    JsonLine(JList(<<>>)),
    JsonLine([session_id |-> session_id]),
    JsonLine([session_id |-> session_id, transcript_path |-> ""]),
    JsonLine([session_id |-> session_id, transcript_path |-> "/t.jsonl"]) }

\* pieces of transcript: an exchange with a tool call without id; results
\* (one without id) and a background start; a blocking retrieval with no
\* user entry before it; a line that makes parse_transcript raise; a late
\* second result for tu1
MainSegments ==
  { <<UserLine("T1", JStr("go")),
      AssistantLine("T2", "model-a", EmptyDict,
                    <<TextBlock("ok"), ToolUse("tu1", "Edit", EmptyDict),
                      ToolUse(Null, "Read", EmptyDict)>>)>>,
    <<UserLine("T2", JList(<<ToolResult("tu1", JStr(<<"ok">>)),
                             ToolResult(Null, JStr(<<"lost">>)),
                             ToolResult("b1", JStr(<<BgMarker, "bg1.">>))>>)),
      AssistantLine("T3", "model-a", EmptyDict,
                    <<BashCall("b1"), ToolUse("tu9", "Grep", EmptyDict)>>)>>,
    <<AssistantLine(Null, "model-a", EmptyDict,
                    <<TaskOutputCall("to1", [task_id |-> "bg1"])>>)>>,
    <<JsonLine(JList(<<>>))>>,
    <<UserLine("T3", JList(<<ToolResult("tu1", JStr(<<"late">>))>>))>> }

MainLogs == {Flatten(segs) : segs \in SeqsOf(MainSegments, 0, MaxTurns)}

MainInit ==
  /\ mpc = "start"
  /\ tracing \in BOOLEAN
  /\ stdin \in HookInputs
  /\ exit_status = <<>>
  /\ ParserStart
  /\ apc = "idle"
  /\ sink \in Sinks
  /\ uuid_salt \in Salts
  /\ now = NoTime
  /\ first_timestamp = NoTime
  /\ events = <<>>
  /\ batch_calls = <<>>
  /\ prev_end_time = NoTime
  /\ pending_background_tasks = EmptyDict
  /\ i = 0
  /\ c = 0
  /\ start_time = NoTime
  /\ end_time = NoTime
  /\ generation_id = Null
  /\ ClassifyIdle

\* main returns status
Return(status) ==
  /\ mpc' = "returned"
  /\ exit_status' = <<status>>

\* Lines 876-878: tracing is off, return 0.
MainCheckTracing ==
  /\ mpc = "start"
  /\ IF tracing
       THEN mpc' = "stdin" /\ UNCHANGED exit_status
       ELSE Return(0)
  /\ UNCHANGED <<tracing, stdin>>
  /\ UNCHANGED <<parserVars, asmVars, classifyVars>>

\* Lines 881-896: the hook input is read.  json.load raising
\* JSONDecodeError is caught; hook_input.get on a JSON value that is not an
\* object raises AttributeError outside any try.
MainReadInput ==
  /\ mpc = "stdin"
  /\ IF "raw" \in DOMAIN stdin THEN Return(0)
     ELSE IF ~IsDict(stdin.json) THEN mpc' = "raised" /\ UNCHANGED exit_status
     ELSE IF ~Truthy(Get(stdin.json, "transcript_path", "")) THEN Return(0)
     ELSE mpc' = "parse" /\ UNCHANGED exit_status
  /\ UNCHANGED <<tracing, stdin>>
  /\ UNCHANGED <<parserVars, asmVars, classifyVars>>

\* Lines 899-905: parse_transcript on the file the path names, which may
\* not exist; whatever it raises is caught and main returns 0.
MainParse ==
  /\ mpc = "parse"
  /\ \E lines \in MainLogs : \E exists \in BOOLEAN :
       LET S == ParseFile(IF exists THEN lines ELSE <<>>)
       IN /\ log = <<>>
          /\ log' = IF exists THEN lines ELSE <<>>
          /\ session_metadata' = S.session_metadata
          /\ turns' = S.turns
          /\ tool_results' = S.tool_results
          /\ totals' = S.totals
          /\ pending_user_message' = S.pending_user_message
          /\ pending_user_timestamp' = S.pending_user_timestamp
          /\ pstatus' = IF S.raised THEN "raised" ELSE "returned"
          /\ IF S.raised THEN Return(0)
             ELSE mpc' = "send" /\ UNCHANGED exit_status
  /\ UNCHANGED <<tracing, stdin>>
  /\ UNCHANGED <<asmVars, classifyVars>>

\* Lines 929-939: send_to_langfuse has returned or raised; what it raises
\* is caught, and main returns 0.
MainReturn ==
  /\ mpc = "send"
  /\ apc \in {"unavailable", "sent", "raised"}
  /\ Return(0)
  /\ UNCHANGED <<tracing, stdin>>
  /\ UNCHANGED <<parserVars, asmVars, classifyVars>>

MainNext ==
  \/ MainCheckTracing
  \/ MainReadInput
  \/ MainParse
  \/ AsmStart
  \/ AsmTurnBegin
  \/ AsmToolCall
  \/ AsmTurnEnd
  \/ AsmSend
  \/ MainReturn

\* one run of the hook, on every hook input, transcript and sink above
SpecMain == MainInit /\ [][MainNext]_vars

-----------------------------------------------------------------------------
(* Properties of main and of the batch it sends.                           *)

\* send_to_langfuse as one call: the tool calls of a turn, then the turns
RECURSIVE RunCalls(_, _, _, _, _, _, _)
RunCalls(calls, pending, batch, gen_id, start, end, salt) ==
  IF Len(calls) = 0 THEN [pending |-> pending, events |-> batch]
  ELSE LET r == ToolCallStep(Head(calls), pending, batch, gen_id, start, end,
                             tool_results, salt)
       IN RunCalls(Tail(calls), r.pending, r.events, gen_id, start, end, salt)

RECURSIVE RunTurns(_, _, _, _, _, _)
RunTurns(k, prev_end, pending, batch, first_ts, salt) ==
  IF k > Len(turns) THEN batch
  ELSE
    LET turn == turns[k]
        start == ResolveStart(parse_iso_timestamp(turn.user_timestamp), prev_end, first_ts)
        end == ResolveEnd(parse_iso_timestamp(turn.assistant_response.timestamp), start)
        gen_id == GenerationIdOf(turn)
        r == RunCalls(turn.assistant_response.tool_calls, pending,
                      AppendEvent(batch, GenerationEvent(k, turn, gen_id, start, end)),
                      gen_id, start, end, salt)
    IN RunTurns(k + 1, NextPrevEnd(prev_end, end, turn), r.pending, r.events,
                first_ts, salt)

\* the batch of a run that draws its uuid4 values from salt, at time wall
Assemble(salt, wall) ==
  RunTurns(1, NoTime, EmptyDict, <<TraceEvent(TraceStart(turns, wall))>>,
           TraceStart(turns, wall), salt)

\* the record ids of a batch, position by position
RecordIds(batch) == [n \in 1 .. Len(batch) |-> batch[n].body.id]

\* send_to_langfuse has handed its batch to the sink
BatchBuilt == apc \in {"sent", "raised"}

\* the run in hand is one of the runs Assemble describes
AssembleAgrees == BatchBuilt => events = Assemble(uuid_salt, now)

\* C11: a second run on the same parsed transcript and session id, with
\* other uuid4 draws, gives the same record id at every position of the
\* batch.
C11_RecordIdsRepeatAcrossRuns ==
  BatchBuilt => \A salt \in Salts : RecordIds(events) = RecordIds(Assemble(salt, now))

\* C15: main never lets a failure escape, and what it returns is 0.
C15_MainAlwaysReturnsZero ==
  /\ mpc # "raised"
  /\ mpc = "returned" => exit_status = <<0>>

\* C16: without the langfuse package or without a key send_to_langfuse
\* builds no batch, calls no sink and returns without raising; it raises
\* only when the batch call has failed; otherwise the batch call has been
\* made exactly once when it returns, with every turn in the batch, and it
\* is never made before the last turn is done nor a second time.
C16_SinkCalledOnceOrNotAtAll ==
  /\ sink \in {"no_package", "no_keys"} =>
       /\ events = <<>>
       /\ batch_calls = <<>>
       /\ apc \in {"idle", "unavailable"}
  /\ apc = "raised" <=> (sink = "fails" /\ Len(batch_calls) = 1)
  /\ apc = "sent" <=> (sink = "ok" /\ Len(batch_calls) = 1)
  /\ Len(batch_calls) <= 1
  /\ Len(batch_calls) = 1 =>
       /\ batch_calls[1] = events
       /\ i > Len(turns)
       /\ Len(SelectSeq(events, IsGeneration)) = Len(turns)
  /\ (mpc = "returned" /\ pstatus = "returned" /\ sink \in {"ok", "fails"}) =>
       Len(batch_calls) = 1

\* the sink failed on a batch of three turns, the failure reached main and
\* main has returned
C16_Witness ==
  /\ sink = "fails"
  /\ apc = "raised"
  /\ Len(turns) = 3
  /\ Len(batch_calls) = 1
  /\ Len(batch_calls[1]) > 4
  /\ mpc = "returned"

\* the places of the tool-result blocks of the log: <<line, block>>
ResultPlaces ==
  {q \in (1 .. Len(log)) \X (1 .. 3) :
     /\ EntryType(log[q[1]]) = "user"
     /\ IsList(UserContent(log[q[1]]))
     /\ q[2] <= Len(UserContent(log[q[1]]).list)
     /\ IsDict(UserContent(log[q[1]]).list[q[2]])
     /\ Get(UserContent(log[q[1]]).list[q[2]], "type", Null) = "tool_result"}

ResultAt(q) == UserContent(log[q[1]]).list[q[2]]

ResultId(q) == Get(ResultAt(q), "tool_use_id", Null)

\* the last tool-result block of the log for an id
LastResultPlace(id) ==
  CHOOSE q \in ResultPlaces :
    /\ ResultId(q) = id
    /\ \A o \in ResultPlaces : ResultId(o) = id => (o = q \/ Before(o, q))

IsToolSpan(e) == e.type = "span-create" /\ ~IsUmbrella(e)

\* C19: the tool-results table has one entry per tool_use_id that a
\* tool-result block of the log carries, holding the content of the last
\* such block in log order, and none for blocks without an id; the output
\* of a tool-call span is the table's entry for the call's tool_use_id, and
\* null when the call has no id or the table has no entry for it.
C19_LastResultPerIdFeedsSpan ==
  pstatus = "returned" =>
    /\ DOMAIN tool_results = {ResultId(q) : q \in ResultPlaces} \ {Null, ""}
    /\ \A id \in DOMAIN tool_results :
         tool_results[id] = Get(ResultAt(LastResultPlace(id)), "content", JNull)
    /\ \A n \in 1 .. Len(events) :
         IsToolSpan(events[n]) =>
           LET id == events[n].body.metadata.tool_use_id
           IN events[n].body.output =
                IF Truthy(id) /\ id \in DOMAIN tool_results THEN tool_results[id]
                ELSE JNull

\* two results for tu1 in the log, the later one in the table and in the
\* span of tu1; a span without id and a span whose id has no result both
\* without output
C19_Witness ==
  /\ apc = "sent"
  /\ Cardinality({q \in ResultPlaces : ResultId(q) = "tu1"}) = 2
  /\ \E q \in ResultPlaces : ResultId(q) = Null
  /\ tool_results["tu1"] = JStr(<<"late">>)
  /\ \E n \in 1 .. Len(events) :
       /\ IsToolSpan(events[n])
       /\ events[n].body.metadata.tool_use_id = "tu1"
       /\ events[n].body.output = JStr(<<"late">>)
  /\ \E n \in 1 .. Len(events) :
       /\ IsToolSpan(events[n])
       /\ events[n].body.metadata.tool_use_id = Null
       /\ events[n].body.output = JNull

\* what tells a generation or tool-call record of the batch from the others
EventKey(e) ==
  IF IsGeneration(e) THEN <<"generation", e.body.name, e.body.id>>
  ELSE <<"span", e.body.name, e.body.parent_observation_id, e.body.metadata.tool_use_id>>

\* the keys of the records of turn k, in the order of the log: the
\* generation, then its tool calls in block order
RECURSIVE CallKeys(_, _)
CallKeys(calls, gen_id) ==
  IF Len(calls) = 0 THEN <<>>
  ELSE <<<<"span", Head(calls).activity_kind \o "/" \o Head(calls).tool_name, gen_id,
           Head(calls).tool_use_id>>>>
         \o CallKeys(Tail(calls), gen_id)

RECURSIVE LogOrderKeys(_)
LogOrderKeys(k) ==
  IF k > Len(turns) THEN <<>>
  ELSE <<<<"generation", "llm-response-" \o ToString(k - 1), GenerationIdOf(turns[k])>>>>
         \o CallKeys(turns[k].assistant_response.tool_calls, GenerationIdOf(turns[k]))
         \o LogOrderKeys(k + 1)

IsLogRecord(e) == IsGeneration(e) \/ IsToolSpan(e)

KeysOf(batch) == [n \in 1 .. Len(batch) |-> EventKey(batch[n])]

IsPrefix(a, b) == Len(a) <= Len(b) /\ SubSeq(b, 1, Len(a)) = a

\* the start marker span an umbrella span at place n goes back to
StartSpanOf(n) ==
  CHOOSE m \in 1 .. (n - 1) :
    /\ IsToolSpan(events[m])
    /\ Get(events[m].body.metadata, "is_background_start", FALSE)
    /\ events[m].body.metadata.background_task_id =
         events[n].body.metadata.background_task_id
    /\ \A o \in (m + 1) .. (n - 1) :
         ~(/\ IsToolSpan(events[o])
           /\ Get(events[o].body.metadata, "is_background_start", FALSE)
           /\ events[o].body.metadata.background_task_id =
                events[n].body.metadata.background_task_id)

\* C20: after the trace record, the generation and tool-call records of the
\* batch are in the order of the log: each generation, then its tool calls
\* in block order, then the next turn's generation.  An umbrella span sits
\* right before the span of the TaskOutput call that completed its task,
\* and carries the start time of the turn of its start marker.
C20_BatchInLogOrder ==
  Len(events) > 0 =>
    /\ events[1].type = "trace-create"
    /\ IsPrefix(KeysOf(SelectSeq(Tail(events), IsLogRecord)), LogOrderKeys(1))
    /\ BatchBuilt => KeysOf(SelectSeq(Tail(events), IsLogRecord)) = LogOrderKeys(1)
    /\ \A n \in 2 .. Len(events) :
         IsUmbrella(events[n]) =>
           /\ n < Len(events)
           /\ IsToolSpan(events[n + 1])
           /\ Get(events[n + 1].body.metadata, "is_background_completion", FALSE)
           /\ events[n + 1].body.metadata.background_task_id =
                events[n].body.metadata.background_task_id
           /\ events[n].body.end_time = events[n + 1].body.end_time
           /\ events[n].body.start_time = events[StartSpanOf(n)].body.start_time

\* a batch of three turns in which the umbrella span comes after the
\* generation of the third turn and starts before it
C20_Witness ==
  /\ apc = "sent"
  /\ Len(turns) = 3
  /\ \E n \in 2 .. (Len(events) - 1) :
       /\ IsUmbrella(events[n])
       /\ IsGeneration(events[n - 1])
       /\ events[n - 1].body.name = "llm-response-2"
       /\ events[n].body.start_time < events[n - 1].body.start_time
       /\ events[n + 1].body.name = "OTHER/TaskOutput"

-----------------------------------------------------------------------------
(* The trace-level input and output (lines 601-621, 683-700), checked on   *)
(* transcripts whose exchanges differ in the user message and in the       *)
(* assistant text: absent, empty, or one of two texts.                     *)

\* One exchange with the given user content (no user entry when Null) and
\* the given assistant blocks.
Exchange(user_content, blocks) ==
  (IF user_content = JNull THEN <<>> ELSE <<UserLine("T1", user_content)>>)
    \o <<AssistantLine("T2", "model-a", EmptyDict, blocks)>>

TraceSegments ==
  { Exchange(JNull, <<ToolUse("tu1", "Read", EmptyDict)>>),
    Exchange(JList(<<TextBlock("")>>), <<TextBlock("a1")>>),
    Exchange(JStr("q1"), <<TextBlock("")>>),
    Exchange(JStr("q2"), <<TextBlock("a2")>>),
    Exchange(JNull, <<TextBlock("a1")>>),
    Exchange(JStr("q1"), <<ToolUse("tu2", "Read", EmptyDict)>>) }

TraceLogs == {Flatten(segs) : segs \in SeqsOf(TraceSegments, 0, MaxTurns)}

\* parse_transcript has returned the result of one of TraceLogs
TraceInit ==
  /\ \E lines \in TraceLogs :
       LET S == ParseFile(lines)
       IN /\ log = lines
          /\ session_metadata = S.session_metadata
          /\ turns = S.turns
          /\ tool_results = S.tool_results
          /\ totals = S.totals
          /\ pending_user_message = S.pending_user_message
          /\ pending_user_timestamp = S.pending_user_timestamp
          /\ pstatus = "returned"
  /\ AsmIdle
  /\ MainIdle
  /\ ClassifyIdle

\* send_to_langfuse on the parse result of every transcript of TraceLogs
SpecTrace == TraceInit /\ [][AsmNext]_vars

\* the trace-create event of the batch in hand
TraceRecord == events[1].body

\* the turns that have a user message, or an assistant text: one that is not
\* null, and one that is not empty either
NonNullMessageTurns == {k \in 1 .. Len(turns) : turns[k].user_message # Null}

NonEmptyMessageTurns == {k \in NonNullMessageTurns : turns[k].user_message # ""}

NonNullTextTurns ==
  {k \in 1 .. Len(turns) : turns[k].assistant_response.text_content # Null}

NonEmptyTextTurns ==
  {k \in NonNullTextTurns : turns[k].assistant_response.text_content # ""}

\* the trace input is the message of the first turn of `hits`, the trace
\* output the text of the last turn of `texts`; null when there is none
InputIsFirstOf(hits) ==
  /\ hits = {} => TraceRecord.input = Null
  /\ \A k \in hits : (\A h \in hits : k <= h) => TraceRecord.input = turns[k].user_message

OutputIsLastOf(texts) ==
  /\ texts = {} => TraceRecord.output = Null
  /\ \A k \in texts :
       (\A h \in texts : k >= h) => TraceRecord.output = turns[k].assistant_response.text_content

\* C21 (amended): the trace record carries as input the user message of the
\* first turn, in log order, whose user message is neither null nor the
\* empty string, and as output the text of the last turn whose assistant
\* text is neither null nor the empty string; each is null when no turn has
\* one.  Later turns without text do not erase the output and earlier turns
\* without a message do not block the input.
C21_TraceInputOutputNonEmpty ==
  Len(events) > 0 =>
    /\ InputIsFirstOf(NonEmptyMessageTurns)
    /\ OutputIsLastOf(NonEmptyTextTurns)

\* a batch whose trace input comes from a turn after one without a message
\* and whose output comes from a turn followed by one without text
C21_Witness ==
  /\ apc = "sent"
  /\ Len(turns) = 3
  /\ turns[1].user_message = Null
  /\ turns[2].user_message = "q2"
  /\ turns[2].assistant_response.text_content = "a2"
  /\ turns[3].assistant_response.text_content = Null
  /\ batch_calls[1][1].body.input = "q2"
  /\ batch_calls[1][1].body.output = "a2"

\* C21 as stated: the first turn with a non-null user message and the last
\* turn with non-null assistant text.  A message or text that is the empty
\* string is not null, and the code passes over it.
C21_TraceInputOutputNonNull ==
  Len(events) > 0 =>
    /\ InputIsFirstOf(NonNullMessageTurns)
    /\ OutputIsLastOf(NonNullTextTurns)

-----------------------------------------------------------------------------
(* The pending set at the end of the stream (lines 715, 792-830, 855-862). *)

\* the place after the last tool call of the last turn
EndOfStream == <<Len(turns) + 1, 1>>

\* the turn loop is over: the batch is about to go, or has gone, to the sink
StreamDone == (apc = "turn" /\ i > Len(turns)) \/ apc \in {"sent", "raised"}

\* the span of a Bash call that was marked as the start of task T
IsStartSpan(e, T) ==
  /\ e.type = "span-create"
  /\ Get(e.body.metadata, "is_background_start", FALSE)
  /\ e.body.metadata.background_task_id = T

\* C22: once the turn loop is over, the pending set holds exactly the task
\* ids that a start marker registered and that no blocking retrieval
\* removed after their latest registration.  A non-empty pending set stops
\* nothing: the function goes on to the sink, the sink is handed the whole
\* batch once, the spans of the start markers of the pending tasks
\* included, and the call returns without raising.
C22_PendingSetAtEndOfStream ==
  StreamDone =>
    /\ DOMAIN pending_background_tasks = {T \in TaskIds : PendingAt(T, EndOfStream)}
    /\ apc # "turn" =>
         /\ apc = "sent"
         /\ batch_calls = <<events>>
         /\ \A T \in DOMAIN pending_background_tasks :
              \E n \in 1 .. Len(events) : IsStartSpan(events[n], T)

\* a batch was sent while bg1, started twice and retrieved once in between,
\* was still pending
C22_Witness ==
  /\ apc = "sent"
  /\ DOMAIN pending_background_tasks = {"bg1"}
  /\ Len(batch_calls) = 1
  /\ \E n \in 1 .. Len(events) : \E m \in 1 .. Len(events) :
       /\ n < m
       /\ IsUmbrella(batch_calls[1][n])
       /\ IsStartSpan(batch_calls[1][m], "bg1")

-----------------------------------------------------------------------------
(* parse_transcript on a file that does not exist (lines 380-395).         *)

\* the call returns from the existence test, before the file is opened
ReturnsWithoutOpening == pstatus = "start" /\ pstatus' = "returned"

\* C23: on a path that does not exist parse_transcript returns, without
\* raising, a result with no turns, an empty tool-results table, the three
\* session-metadata fields null, the four token totals 0 and each of the
\* ten activity counts 0.
C23_MissingFileGivesEmptyResult ==
  [][ReturnsWithoutOpening =>
       /\ turns' = <<>>
       /\ DOMAIN tool_results' = {}
       /\ DOMAIN session_metadata' = {"cwd", "git_branch", "model"}
       /\ \A f \in DOMAIN session_metadata' : session_metadata'[f] = Null
       /\ totals'.input_tokens = 0
       /\ totals'.output_tokens = 0
       /\ totals'.cache_read_input_tokens = 0
       /\ totals'.cache_creation_input_tokens = 0
       /\ Cardinality(DOMAIN totals'.activity_counts) = 10
       /\ \A kind \in DOMAIN totals'.activity_counts : totals'.activity_counts[kind] = 0]_vars

\* the call has returned and no line was read
C23_Witness ==
  /\ pstatus = "returned"
  /\ log = <<>>
  /\ turns = <<>>
  /\ SumCounts(totals.activity_counts) = 0

-----------------------------------------------------------------------------
(* The token totals (lines 478-490).                                       *)

TokenKeys ==
  {"input_tokens", "output_tokens", "cache_read_input_tokens",
   "cache_creation_input_tokens"}

\* the usage object of the assistant entry that emitted turn k, as logged
LoggedUsage(k) == Get(Get(log[PlaceOfTurn(k)].json, "message", EmptyDict), "usage", EmptyDict)

\* the sum of one usage field over the emitted turns, as the turns record it
RECURSIVE SumTurnUsage(_, _)
SumTurnUsage(ts, key) ==
  IF Len(ts) = 0 THEN 0
  ELSE Head(ts).assistant_response.usage[key] + SumTurnUsage(Tail(ts), key)

\* the token totals agree with the emitted turns, and each turn records the
\* usage fields of its assistant entry, a missing field counting as 0
TotalsAreSums ==
  /\ \A key \in TokenKeys : totals[key] = SumTurnUsage(turns, key)
  /\ \A k \in 1 .. Len(turns) :
       LET usage == LoggedUsage(k)
       IN \A key \in TokenKeys :
            turns[k].assistant_response.usage[key] = Get(usage, key, 0)

\* C24: after every line read, each of the four token totals is the sum of
\* that usage field over the assistant entries that emitted a turn, a field
\* the entry's usage lacks counting as 0; reading a user entry, a summary
\* entry or a skipped line leaves the four totals as they were.
C24_TokenTotalsAreSumsOverTurns ==
  [][Len(log') = Len(log) + 1 =>
       /\ TotalsAreSums'
       /\ EntryType(log'[Len(log')]) # "assistant" =>
            \A key \in TokenKeys : totals'[key] = totals[key]]_vars

\* two turns were emitted whose usage objects carry different fields, and a
\* user entry was read after them
C24_Witness ==
  /\ Len(turns) = 2
  /\ Len(log) = 3
  /\ EntryType(log[3]) = "user"
  /\ totals.input_tokens = 1
  /\ totals.output_tokens = 2
  /\ totals.cache_read_input_tokens = 1
  /\ totals.cache_creation_input_tokens = 3

-----------------------------------------------------------------------------
(* Chronology of the records (lines 601-628, 727-737, 807-811).            *)

\* the parsed timestamp of the n-th line of the log, NoTime when it has none
LogTime(n) ==
  IF IsEntry(log[n]) THEN parse_iso_timestamp(Get(log[n].json, "timestamp", Null))
  ELSE NoTime

\* the append-ordered assumption: the timestamps that parse do not decrease
\* along the log
LogIsAppendOrdered ==
  \A m \in 1 .. Len(log) : \A n \in m .. Len(log) :
    (LogTime(m) # NoTime /\ LogTime(n) # NoTime) => LogTime(m) <= LogTime(n)

\* C25 (as claimed): when the timestamps of the log do not decrease in log
\* order, every generation record starts no later than it ends, the start
\* times of successive generations do not decrease, and every umbrella span
\* starts no later than it ends.
C25_AppendOrderedLogGivesOrderedRecords ==
  LogIsAppendOrdered =>
    /\ \A k \in 1 .. Len(Generations) :
         Generations[k].body.start_time <= Generations[k].body.end_time
    /\ \A k \in 2 .. Len(Generations) :
         Generations[k - 1].body.start_time <= Generations[k].body.start_time
    /\ \A n \in 1 .. Len(events) :
         IsUmbrella(events[n]) => events[n].body.start_time <= events[n].body.end_time

-----------------------------------------------------------------------------
(* The shape of the batch (lines 683-700, 749-774, 813-850).               *)

IsTrace(e) == e.type = "trace-create"

IsSpan(e) == e.type = "span-create"

\* how many events of the batch satisfy a test, given as the set of their
\* positions
TracePositions == {n \in 1 .. Len(events) : IsTrace(events[n])}

GenerationPositions == {n \in 1 .. Len(events) : IsGeneration(events[n])}

ToolSpanPositions == {n \in 1 .. Len(events) : IsToolSpan(events[n])}

UmbrellaPositions == {n \in 1 .. Len(events) : IsUmbrella(events[n])}

\* the tool calls that complete a background task: blocking retrievals of a
\* task pending at that point of the log
Completions == {q \in Calls : \E T \in TaskIds : BlockingRetrieval(q, T) /\ PendingAt(T, q)}

\* C26: the trace record is the first record of the batch and the only
\* trace record; the parent of every span, tool-call span or umbrella span,
\* is the id of a generation record that stands earlier in the batch; and
\* the finished batch holds one generation record per turn, one tool-call
\* span per tool call and one umbrella span per completed background task,
\* and nothing else.
C26_BatchShape ==
  Len(events) > 0 =>
    /\ TracePositions = {1}
    /\ \A n \in 1 .. Len(events) :
         IsSpan(events[n]) =>
           \E g \in GenerationPositions :
             /\ g < n
             /\ events[n].body.parent_observation_id = events[g].body.id
    /\ StreamDone =>
         /\ Cardinality(GenerationPositions) = Len(turns)
         /\ Cardinality(ToolSpanPositions) = Cardinality(Calls)
         /\ Cardinality(UmbrellaPositions) = Cardinality(Completions)
         /\ Len(events) = 1 + Len(turns) + Cardinality(Calls) + Cardinality(Completions)

\* a finished batch of three turns with an umbrella span whose parent is
\* the generation of an earlier turn than the one that completes it
C26_Witness ==
  /\ apc = "sent"
  /\ Len(turns) = 3
  /\ Cardinality(Calls) >= 3
  /\ \E u \in UmbrellaPositions : \E g \in GenerationPositions : \E h \in GenerationPositions :
       /\ g < h /\ h < u
       /\ events[u].body.parent_observation_id = events[g].body.id
       /\ events[u].body.parent_observation_id # events[h].body.id

-----------------------------------------------------------------------------
(* The generation ids of one batch (lines 739-747, 512-527).               *)

\* C27 (as claimed): within one batch no two turns get the same generation
\* record id, so no tool-call span of one turn has for parent an id that
\* the generation of another turn carries too.
C27_GenerationIdsDistinct ==
  /\ \A j \in 1 .. Len(Generations) : \A k \in 1 .. Len(Generations) :
       j # k => Generations[j].body.id # Generations[k].body.id
  /\ \A n \in ToolSpanPositions :
       Cardinality({k \in 1 .. Len(Generations) :
                      Generations[k].body.id = events[n].body.parent_observation_id}) = 1

-----------------------------------------------------------------------------
(* Registrations and umbrella spans (lines 792-805, 807-830).              *)

\* the positions in the batch of the start-marker spans and of the umbrella
\* spans of task T
StartPositions(T) == {n \in 1 .. Len(events) : IsStartSpan(events[n], T)}

UmbrellaPositionsOf(T) ==
  {n \in UmbrellaPositions : events[n].body.metadata.background_task_id = T}

\* the latest start-marker span of T before position n
LatestStart(T, n) ==
  CHOOSE m \in StartPositions(T) :
    m < n /\ \A o \in StartPositions(T) : o < n => o <= m

\* C28: for every background task id, each umbrella span of the batch goes
\* back to a start marker of its own: a start-marker span of the id stands
\* before it, with no other umbrella span of the id in between, so that the
\* umbrella spans of an id are never more than its start markers, a second
\* blocking retrieval of a completed id and a retrieval that precedes the
\* start marker add none.  A start marker for an id that is still pending
\* replaces the earlier registration: the pending entry, and the umbrella
\* span that consumes it, carry the tool_use_id, the generation and the
\* start time of the latest start marker.
C28_UmbrellaPerRegistration ==
  \A T \in TaskIds :
    /\ Cardinality(UmbrellaPositionsOf(T)) <= Cardinality(StartPositions(T))
    /\ StreamDone =>
         Cardinality(UmbrellaPositionsOf(T)) <= Cardinality({p \in Calls : StartsTask(p, T)})
    /\ \A u \in UmbrellaPositionsOf(T) :
         /\ \E m \in StartPositions(T) : m < u
         /\ \A v \in UmbrellaPositionsOf(T) : v < u => v < LatestStart(T, u)
         /\ events[u].body.metadata.bash_tool_use_id =
              events[LatestStart(T, u)].body.metadata.tool_use_id
         /\ events[u].body.parent_observation_id =
              events[LatestStart(T, u)].body.parent_observation_id
         /\ events[u].body.start_time = events[LatestStart(T, u)].body.start_time
    /\ T \in DOMAIN pending_background_tasks =>
         /\ StartPositions(T) # {}
         /\ \A v \in UmbrellaPositionsOf(T) : v < LatestStart(T, Len(events) + 1)
         /\ pending_background_tasks[T].bash_tool_use_id =
              events[LatestStart(T, Len(events) + 1)].body.metadata.tool_use_id
         /\ pending_background_tasks[T].generation_id =
              events[LatestStart(T, Len(events) + 1)].body.parent_observation_id
         /\ pending_background_tasks[T].start_time =
              events[LatestStart(T, Len(events) + 1)].body.start_time

\* bg1 was started twice before its one blocking retrieval, and retrieved a
\* second time after it: the batch has two start markers and one umbrella
\* span, which starts with the second start marker, not the first
C28_Witness ==
  /\ apc = "sent"
  /\ Cardinality(StartPositions("bg1")) = 2
  /\ Cardinality(UmbrellaPositionsOf("bg1")) = 1
  /\ \E u \in UmbrellaPositionsOf("bg1") : \E m \in StartPositions("bg1") :
       /\ m < LatestStart("bg1", u)
       /\ events[m].body.start_time # events[u].body.start_time
       /\ \E r \in ToolSpanPositions :
            /\ r > u + 1
            /\ events[r].body.name = "OTHER/TaskOutput"
            /\ "block" \notin DOMAIN events[r].body.input

-----------------------------------------------------------------------------
(* User entries in a row (lines 418-440, 492-507).                         *)

\* the last of the user entries of turn k
LastUserPlaceOf(k) == CHOOSE n \in UserPlacesOf(k) : \A m \in UserPlacesOf(k) : m <= n

\* the ids of the tool-result blocks of line n
ResultIdsOf(n) == {ResultId(q) : q \in {p \in ResultPlaces : p[1] = n}} \ {Null, ""}

\* C29: when two or more user entries precede an assistant entry with no
\* assistant entry between them, the turn carries the text and the
\* timestamp of the last of them only: the text of the earlier ones is
\* dropped, and the turn's user_message is null when the last one has no
\* text.  The tool-result blocks of all of them are in the tool-results
\* table all the same.
C29_LastOfSeveralUserEntriesWins ==
  (pstatus # "raised" /\ Len(turns) = Cardinality(AssistantPlaces)) =>
    \A k \in 1 .. Len(turns) :
      Cardinality(UserPlacesOf(k)) >= 2 =>
        /\ turns[k].user_message = UserText(log[LastUserPlaceOf(k)])
        /\ turns[k].user_timestamp = Get(log[LastUserPlaceOf(k)].json, "timestamp", Null)
        /\ JustToolResults(log[LastUserPlaceOf(k)]) => turns[k].user_message = Null
        /\ \A n \in UserPlacesOf(k) : ResultIdsOf(n) \subseteq DOMAIN tool_results

\* a user entry with text and a tool result, then one with a tool result
\* only, then the assistant entry: the turn has no user message, the
\* timestamp of the second entry, and both results are in the table
C29_Witness ==
  /\ Len(log) = 3
  /\ Len(turns) = 1
  /\ UserPlacesOf(1) = {1, 2}
  /\ UserText(log[1]) = "more"
  /\ turns[1].user_message = Null
  /\ turns[1].user_timestamp = "T3"
  /\ {"tu1", "tu2"} \subseteq DOMAIN tool_results

=============================================================================
